---------------------------- MODULE Spec2Model ----------------------------
(***************************************************************************)
(* Model of the out-of-process computer provider (NativeComputerProvider): *)
(* the request/response correlator it runs over a native-messaging port.   *)
(*                                                                         *)
(* The provider is single-threaded JavaScript: every listener, timer       *)
(* callback and synchronous stretch of an async method runs to completion, *)
(* so each of them is one atomic action here.  initialize() suspends once, *)
(* at the await of its ping, and is therefore two actions.                 *)
(*                                                                         *)
(* Environment: chrome.runtime.connectNative returns a port (a missing     *)
(* host shows as a later onDisconnect); a port delivers onMessage events   *)
(* and at most one onDisconnect event until it is closed; postMessage on   *)
(* the port this.port refers to does not throw.  Calls of the provider's  *)
(* methods may interleave freely, a second initialize() included.          *)
(***************************************************************************)
EXTENDS Integers, Sequences, FiniteSets, TLC

\* ------------------------------------------------------------------ bounds
\* Requests issued (pings included) over the life of one provider instance.
MaxRequests == 2
\* initialize() calls made on one provider instance; the k-th call opens
\* channel k.
MaxInits == 2

Ids == 0 .. (MaxRequests - 1)
InitCalls == 1 .. MaxInits
NoId == -1
NoPort == 0

\* ---------------------------------------------------------- error messages
ErrTimeout == "Native message timeout"
ErrDisconnected == "Native host disconnected"
ErrDisposed == "Provider disposed"
ErrUnknown == "Unknown error"

\* Inbound messages the peer may deliver: {id?, success, data?, error?}.
\* id = NoId stands for a message without an id field; error = "" for a
\* message without error text.
Messages ==
    [id : Ids \cup {NoId}, success : {TRUE}, data : {"X"}, error : {""}]
        \cup
    [id : Ids \cup {NoId}, success : {FALSE}, data : {""}, error : {"", "E1"}]

VARIABLES
    port,             \* this.port: NoPort (null) or the channel it refers to
    open,             \* channels opened by connectNative and not yet closed
    messageId,        \* this.messageId
    pendingMessages,  \* keys of this.pendingMessages
    timers,           \* ids whose setTimeout callback has not run yet
    outcome,          \* per id: state of the promise sendNativeMessage returned
    settleCalls,      \* per id: how often resolve/reject of that promise ran
    claim,            \* per id: which event took the entry out of the table
    sent,             \* what postMessage put on the channels, in order
    inits,            \* per initialize() call: where it stands
    lifecycle,        \* the last of initialize / disconnect / dispose
    refused,          \* a request threw "not connected" since then
    lateResponse      \* a response came for an issued id no longer in the table

\* ComputerProviderFactory.create / autoDetect, one call
VARIABLES
    mode,             \* config.mode of the call ("auto" for autoDetect)
    createPc,         \* where the call stands
    provider,         \* the local variable provider of create
    returned,         \* what the call handed to its caller
    thrown,           \* the error the call threw, "" for none
    fallbackCause     \* the error the catch block of the fallback logged

\* TeachingService, the page it draws on, and the store it saves to
VARIABLES
    activeSessions,   \* this.activeSessions: tabId -> the session object held
    sessions,         \* the session objects still referenced, by identity
    starts,           \* startTeaching calls made so far
    startCall,        \* the startTeaching call in flight, or the last one
    endCall,          \* the endTeaching call in flight, or the last one
    saveCall,         \* the saveSession call in flight, or the last one
    annotateCall,     \* annotateElement calls made so far, outcome of the last
    overlay,          \* per tab: the teaching overlay element in the page
    storage           \* chrome.storage.local: key -> stored value

\* The functions that touch no state: the static methods of GroundingParser
\* and TeachingService.matchElements
VARIABLES
    pureCall          \* the last call of one: function, arguments, result

\* TeachingStorage, whose static methods callers run side by side
VARIABLES
    storeCalls,       \* per caller: the call it has in flight, or its last one
    storeMade         \* calls made so far

nativeVars == <<port, open, messageId, pendingMessages, timers, outcome,
                settleCalls, claim, sent, inits, lifecycle, refused,
                lateResponse>>

factoryVars == <<mode, createPc, provider, returned, thrown, fallbackCause>>

teachVars == <<activeSessions, sessions, starts, startCall, endCall, saveCall,
               annotateCall, overlay, storage>>

pureVars == <<pureCall>>

storeVars == <<storeCalls, storeMade>>

\* What TeachingService adds to the store it saves to.
serviceVars == <<activeSessions, sessions, starts, startCall, endCall, saveCall,
                 annotateCall, overlay>>

vars == <<nativeVars, factoryVars, teachVars, pureVars, storeVars>>

Unissued == [st |-> "none", val |-> ""]
Pending == [st |-> "pending", val |-> ""]
Resolved(v) == [st |-> "resolved", val |-> v]
Rejected(e) == [st |-> "rejected", val |-> e]
Settled(o) == o.st \in {"resolved", "rejected"}

\* A promise settles once: resolve/reject of an already settled promise
\* have no effect.
Settle(o, i, result) ==
    IF o[i].st = "pending" THEN [o EXCEPT ![i] = result] ELSE o

Min(S) == CHOOSE x \in S : \A y \in S : x <= y

\* Mutant: the loop stops after the first entry.
RejectedEntriesFirstOnly(table) == IF table = {} THEN {} ELSE {Min(table)}

\* The entries the loop  for (const [id, {reject}] of this.pendingMessages)
\* of onDisconnect and dispose visits.
RejectedEntries(table) == table

\* Mutant: the counter is read but not advanced.
NextMessageIdStuck(id) == id

\* this.messageId++
NextMessageId(id) == id + 1

\* Mutant: no timer is armed.
ArmTimerNever(t, i) == t

\* setTimeout(callback, timeout) for request i
ArmTimer(t, i) == t \cup {i}

\* --------------------------------------------------------------- detection
\* A model response is text; the model keeps of it what the code looks at.
\* A text is a sequence of lines (split at '\n'), a line a sequence of
\* pieces:  a well-formed tag <box>(x1,y1),(x2,y2)</box>,  a malformed tag
\* (text that contains "<box>" but that boxRegex does not match),  the
\* character "]",  or a run of other text.
NoBox == [x1 |-> 0, y1 |-> 0, x2 |-> 0, y2 |-> 0]
Box(b) == [k |-> "box", b |-> b, w |-> ""]
BadBox == [k |-> "badbox", b |-> NoBox, w |-> ""]
RBracket == [k |-> "]", b |-> NoBox, w |-> ""]
Word(w) == [k |-> "word", b |-> NoBox, w |-> w]

RECURSIVE Concat(_)
Concat(ss) == IF ss = <<>> THEN <<>> ELSE Head(ss) \o Concat(Tail(ss))

Max(S) == CHOOSE x \in S : \A y \in S : x >= y

\* boxRegex matches the piece.
IsBoxTag(piece) == piece.k = "box"

\* GroundingParser.extractBoundingBoxes: the boxes of the well-formed tags, in
\* document order.
ExtractBoundingBoxes(text) ==
    LET tags == SelectSeq(Concat(text), IsBoxTag)
    IN  [i \in 1 .. Len(tags) |-> tags[i].b]

\* line.includes('<box>')
IncludesBoxOpen(line) == \E i \in 1 .. Len(line) : line[i].k \in {"box", "badbox"}

\* response.text.split('\n').filter(line => line.includes('<box>'))
BoxLines(text) == SelectSeq(text, IncludesBoxOpen)

\* Math.round((pixel / dimension) * 1000), for pixel >= 0 and dimension > 0
PixelToNormalized(pixel, dimension) ==
    (2 * 1000 * pixel + dimension) \div (2 * dimension)

PixelBoxToNormalized(bbox, width, height) ==
    [x1 |-> PixelToNormalized(bbox.x1, width),
     y1 |-> PixelToNormalized(bbox.y1, height),
     x2 |-> PixelToNormalized(bbox.x2, width),
     y2 |-> PixelToNormalized(bbox.y2, height)]

\* A description is either text taken from the response or the synthesized
\* `Element ${n}`.
TextDescription(pieces) == [placeholder |-> 0, text |-> pieces]
PlaceholderDescription(n) == [placeholder |-> n, text |-> <<>>]

\* Where  line.match(/\]\s*(.+)$/)  matches: at the first "]" that has at
\* least one character after it; 0 when there is none.
DescMatch(line) ==
    LET at == {i \in 1 .. Len(line) - 1 : line[i].k = "]"}
    IN  IF at = {} THEN 0 ELSE Min(at)

\* descMatch ? descMatch[1].trim() : `Element ${index + 1}`
Description(line, index) ==
    IF DescMatch(line) = 0
    THEN PlaceholderDescription(index + 1)
    ELSE TextDescription(SubSeq(line, DescMatch(line) + 1, Len(line)))

\* Mutant: the array index is used as the id.
ElementIdFromZero(index) == index

\* id: index + 1
ElementId(index) == index + 1

DefaultConfidence == "0.8"
Undefined == "undefined"

\* lines[index] || ''
LineAt(lines, index) == IF index + 1 \in DOMAIN lines THEN lines[index + 1] ELSE <<>>

\* The elements detectElements builds from the response text and the
\* viewport: boxes.map((bbox, index) => ...).
DetectElements(text, viewport) ==
    LET boxes == ExtractBoundingBoxes(text)
        lines == BoxLines(text)
    IN  [p \in 1 .. Len(boxes) |->
            [id |-> ElementId(p - 1),
             bbox |-> boxes[p],
             normalizedBbox |->
                 PixelBoxToNormalized(boxes[p], viewport.width, viewport.height),
             autoDescription |-> Description(LineAt(lines, p - 1), p - 1),
             userDescription |-> Undefined,
             confidence |-> DefaultConfidence]]

\* ------------------------------------------------------- teaching: inputs
Tabs == {1}
\* A URL as new URL(url) takes it apart.
Urls ==
    {[protocol |-> "https:", hostname |-> "a.example", pathname |-> "/form",
      search |-> "?step=1"]}
Descriptions == {"confirm", "cancel"}
Viewports == {[width |-> 100, height |-> 50]}

B1 == [x1 |-> 10, y1 |-> 10, x2 |-> 20, y2 |-> 20]
B2 == [x1 |-> 30, y1 |-> 10, x2 |-> 50, y2 |-> 25]

\* <box>(10,10),(20,20)</box> OK button
TextExample == << <<Box(B1), Word("OK button")>> >>
\* <box>(10,10),(20,20)</box> [Save] primary
\* <box>(1,1)</box> broken
\* <box>(30,10),(50,25)</box> Go
TextMalformed ==
    << <<Box(B1), Word("[Save"), RBracket, Word("primary")>>,
       <<BadBox, Word("broken")>>,
       <<Box(B2), Word("Go")>> >>
\* ''
TextEmpty == <<>>

\* What callVisionModel resolves with: {success, text?, error?}
Responses ==
    [success : {TRUE}, text : {TextExample, TextMalformed, TextEmpty}]
        \cup [success : {FALSE}, text : {TextEmpty}]

\* The element ids annotateElement calls are made with: the ids an element
\* of some session can have.  In a session with fewer elements the larger
\* ones are ids of no element.
ElementIdInputs == 1 .. Max({Len(ExtractBoundingBoxes(r.text)) : r \in Responses})

\* ---------------------------------------------------------- teaching: Map
EmptyMap == [x \in {} |-> 0]
MapSet(f, k, v) == [x \in DOMAIN f \cup {k} |-> IF x = k THEN v ELSE f[x]]
MapDelete(f, k) == [x \in DOMAIN f \ {k} |-> f[x]]

\* The field outcome of a call says how it ended: "none" while it has not,
\* "returned", or the error it threw.
NoCall == [pc |-> "idle", tabId |-> 0, session |-> 0, outcome |-> "none"]
NoUrl == [protocol |-> "", hostname |-> "", pathname |-> "", search |-> ""]
NoViewport == [width |-> 0, height |-> 0]
NoMemory ==
    [url |-> NoUrl, urlHash |-> <<>>, domain |-> "", elements |-> <<>>,
     viewport |-> NoViewport]
NoStartCall ==
    [pc |-> "idle", tabId |-> 0, url |-> NoUrl, text |-> <<>>, session |-> 0,
     outcome |-> "none"]
NoSaveCall ==
    [pc |-> "idle", tabId |-> 0, session |-> 0, memory |-> NoMemory,
     outcome |-> "none"]

\* A TeachingService right after its constructor ran; pages without overlays;
\* an empty store.
NoTeaching ==
    /\ activeSessions = EmptyMap
    /\ sessions = EmptyMap
    /\ starts = 0
    /\ startCall = NoStartCall
    /\ endCall = NoCall
    /\ saveCall = NoSaveCall
    /\ annotateCall = [made |-> 0, outcome |-> "none"]
    /\ overlay = [t \in Tabs |-> 0]
    /\ storage = EmptyMap

\* No pure function has been called.
NoPureCall == pureCall = [fn |-> "none"]

\* Callers of TeachingStorage that run side by side.
Callers == {1, 2}

\* A caller that has no call in flight.  The field outcome says how its last
\* call ended, as for the calls of the service; result is what it returned.
NoStoreCallRecord ==
    [op |-> "none", pc |-> "idle", url |-> NoUrl, domain |-> "", elementId |-> 0,
     userDescription |-> "", memory |-> NoMemory, keys |-> {},
     outcome |-> "none", result |-> <<>>]

\* No method of TeachingStorage has been called.
NoStoreCall ==
    /\ storeCalls = [c \in Callers |-> NoStoreCallRecord]
    /\ storeMade = 0

\* No factory call has been made.
NoCreateCall ==
    /\ mode = "none"
    /\ createPc = "idle"
    /\ provider = "none"
    /\ returned = "none"
    /\ thrown = ""
    /\ fallbackCause = ""

\* A provider instance right after its constructor ran, used directly.
Init ==
    /\ port = NoPort
    /\ open = {}
    /\ messageId = 0
    /\ pendingMessages = {}
    /\ timers = {}
    /\ outcome = [i \in Ids |-> Unissued]
    /\ settleCalls = [i \in Ids |-> 0]
    /\ claim = [i \in Ids |-> "none"]
    /\ sent = <<>>
    /\ inits = [k \in InitCalls |-> [st |-> "none", ping |-> NoId]]
    /\ lifecycle = "new"
    /\ refused = FALSE
    /\ lateResponse = FALSE
    /\ NoCreateCall
    /\ NoTeaching
    /\ NoPureCall
    /\ NoStoreCall

\* The body of the promise executor in sendNativeMessage, run with
\* this.port = p: take the next id, enter it in the table, post, arm the timer.
Issue(p) ==
    /\ Len(sent) < MaxRequests
    /\ messageId \in Ids
    /\ messageId' = NextMessageId(messageId)
    /\ pendingMessages' = pendingMessages \cup {messageId}
    /\ sent' = Append(sent, [chan |-> p, id |-> messageId])
    /\ timers' = ArmTimer(timers, messageId)
    /\ outcome' = [outcome EXCEPT ![messageId] = Pending]
    /\ settleCalls' = [settleCalls EXCEPT ![messageId] = 0]
    /\ claim' = [claim EXCEPT ![messageId] = "none"]

\* ------------------------------------------------------------- initialize
\* initialize(), up to the await: connectNative, the two listeners, and the
\* synchronous part of sendNativeMessage({action: 'ping'}).  The port that
\* this.port referred to before, if any, is neither closed nor unhooked.
Initialize(k) ==
    /\ inits[k].st = "none"
    /\ \A j \in InitCalls : j < k => inits[j].st # "none"
    /\ port' = k
    /\ open' = open \cup {k}
    /\ Issue(k)
    /\ inits' = [inits EXCEPT ![k] = [st |-> "awaiting", ping |-> messageId]]
    /\ lifecycle' = "initialize"
    /\ refused' = FALSE
    /\ UNCHANGED lateResponse

\* Mutant: the outcome of the ping is not looked at.
InitResultAlwaysOk(o) == "ok"

\* What the await of the ping hands back to initialize(): it returns normally
\* when the ping's promise resolved; when it rejected, the catch block throws
\* "Native messaging host not available. ..." whatever the cause was.
InitResult(o) ==
    IF o.st = "resolved" THEN "ok" ELSE "unavailable"

\* initialize(), from the await on.
InitializeReturn(k) ==
    /\ inits[k].st = "awaiting"
    /\ Settled(outcome[inits[k].ping])
    /\ inits' = [inits EXCEPT ![k].st = InitResult(outcome[inits[k].ping])]
    /\ UNCHANGED <<port, open, messageId, pendingMessages, timers, outcome,
                   settleCalls, claim, sent, lifecycle, refused, lateResponse>>

\* ------------------------------------------------------- sendNativeMessage
\* A request made through any of the provider's methods (execute, click,
\* screenshot, ...): all of them go through sendNativeMessage.
SendNativeMessage ==
    IF port = NoPort
    THEN /\ refused' = TRUE
         /\ UNCHANGED <<port, open, messageId, pendingMessages, timers, outcome,
                        settleCalls, claim, sent, inits, lifecycle, lateResponse>>
    ELSE /\ Issue(port)
         /\ UNCHANGED <<port, open, inits, lifecycle, refused, lateResponse>>

\* Mutant: the callback rejects without looking at the table.
TimeoutClaimsAlways(i) == TRUE

\* The test the timeout callback makes: const pending = get(id); if (pending)
TimeoutClaims(i) == i \in pendingMessages

\* Mutant: the callback leaves the entry in the table.
AfterTimeoutDeleteKept(table, i) == table

\* this.pendingMessages.delete(id) in the timeout callback
AfterTimeoutDelete(table, i) == table \ {i}

\* The setTimeout callback of request i.
TimeoutCallback(i) ==
    /\ i \in timers
    /\ timers' = timers \ {i}
    /\ IF TimeoutClaims(i)
       THEN /\ pendingMessages' = AfterTimeoutDelete(pendingMessages, i)
            /\ outcome' = Settle(outcome, i, Rejected(ErrTimeout))
            /\ settleCalls' = [settleCalls EXCEPT ![i] = @ + 1]
            /\ claim' = [claim EXCEPT ![i] = "timer"]
       ELSE UNCHANGED <<pendingMessages, outcome, settleCalls, claim>>
    /\ UNCHANGED <<port, open, messageId, sent, inits, lifecycle, refused,
                   lateResponse>>

\* ----------------------------------------------------- handleNativeMessage
\* Mutant: responses are matched to the oldest outstanding request.
MessageKeyOldest(m) ==
    IF pendingMessages = {} THEN m.id ELSE Min(pendingMessages)

\* The key handleNativeMessage looks up: this.pendingMessages.get(message.id)
MessageKey(m) == m.id

\* Mutant: the entry is used without looking whether there is one.
MessageClaimsWithoutLookup(m) == m.id # NoId

\* message.id !== undefined, and the table holds an entry under the key.
MessageClaims(m) == m.id # NoId /\ MessageKey(m) \in pendingMessages

\* Mutant: every answer resolves.
MessageOutcomeIgnoresSuccess(m) == Resolved(m.data)

\* message.success ? resolve(message.data)
\*                 : reject(new Error(message.error || 'Unknown error'))
MessageOutcome(m) ==
    IF m.success
    THEN Resolved(m.data)
    ELSE Rejected(IF m.error = "" THEN ErrUnknown ELSE m.error)

\* The onMessage listener; it is hooked to every port the provider opened, so
\* a message arrives as long as some channel is open.
HandleNativeMessage(m) ==
    /\ open # {}
    /\ IF MessageClaims(m)
       THEN /\ pendingMessages' = pendingMessages \ {MessageKey(m)}
            /\ outcome' = Settle(outcome, MessageKey(m), MessageOutcome(m))
            /\ settleCalls' = [settleCalls EXCEPT ![MessageKey(m)] = @ + 1]
            /\ claim' = [claim EXCEPT ![MessageKey(m)] =
                            IF m.success THEN "success" ELSE "failure"]
            /\ UNCHANGED lateResponse
       ELSE /\ lateResponse' = (lateResponse \/ (m.id \in Ids /\ m.id < messageId))
            /\ UNCHANGED <<pendingMessages, outcome, settleCalls, claim>>
    /\ UNCHANGED <<port, open, messageId, timers, sent, inits, lifecycle, refused>>

\* ------------------------------------------------------------ onDisconnect
\* Mutant: the listener leaves this.port as it is.
PortAfterDisconnectKept(c) == port

\* this.port after the onDisconnect listener of channel c ran: the listener
\* assigns null, whichever channel it is hooked to.
PortAfterDisconnect(c) == NoPort

\* Reject every entry the loop visits with err, then clear() the table.
RejectAllAndClear(err, by) ==
    /\ outcome' = [i \in Ids |->
                     IF i \in RejectedEntries(pendingMessages)
                     THEN Settle(outcome, i, Rejected(err))[i]
                     ELSE outcome[i]]
    /\ settleCalls' = [i \in Ids |->
                         IF i \in RejectedEntries(pendingMessages)
                         THEN settleCalls[i] + 1 ELSE settleCalls[i]]
    /\ claim' = [i \in Ids |-> IF i \in pendingMessages THEN by ELSE claim[i]]
    /\ pendingMessages' = {}

\* The onDisconnect listener of channel c.
OnDisconnect(c) ==
    /\ c \in open
    /\ open' = open \ {c}
    /\ port' = PortAfterDisconnect(c)
    /\ RejectAllAndClear(ErrDisconnected, "disconnect")
    /\ lifecycle' = "disconnect"
    /\ refused' = FALSE
    /\ UNCHANGED <<messageId, timers, sent, inits, lateResponse>>

\* ----------------------------------------------------------------- dispose
\* The channels dispose() closes: the one this.port refers to, if any.
DisposeCloses == IF port # NoPort THEN {port} ELSE {}

Dispose ==
    /\ open' = open \ DisposeCloses
    /\ port' = NoPort
    /\ RejectAllAndClear(ErrDisposed, "dispose")
    /\ lifecycle' = "dispose"
    /\ refused' = FALSE
    /\ UNCHANGED <<messageId, timers, sent, inits, lateResponse>>

\* ---------------------------------------------------------------- factory
\* ComputerProviderFactory.  create(config) and autoDetect() build a provider
\* and initialize it; the out-of-process provider they build is the instance
\* modelled above, and its initialize() is Initialize(1) / InitializeReturn(1).
\* BrowserComputerProvider.initialize() awaits chrome.tabs.query and has no
\* throw of its own; chrome.tabs.query is taken to resolve.
Modes == {"browser_only", "desktop", "hybrid", "tablet"}

ErrUnknownMode == "Unknown computer mode"
ErrUnavailable == "Native messaging host not available"

\* Mutant: every mode that builds the out-of-process provider falls back.
FallsBackInEveryMode(m) == TRUE

\* The calls that await the out-of-process initialize() inside a try block
\* whose catch falls back: create in hybrid mode, and autoDetect.
FallsBack(m) == m \in {"hybrid", "auto"}

\* create(config), up to its first await.
Create(m) ==
    /\ createPc = "idle"
    /\ mode' = m
    /\ UNCHANGED <<returned, fallbackCause>>
    /\ CASE m = "browser_only" ->
              /\ provider' = "browser"
              /\ createPc' = "browserInit"
              /\ thrown' = ""
              /\ UNCHANGED nativeVars
         [] m \in {"desktop", "hybrid"} ->
              /\ provider' = "native"
              /\ createPc' = "nativeInit"
              /\ thrown' = ""
              /\ Initialize(1)
         [] OTHER ->
              /\ provider' = "none"
              /\ createPc' = "threw"
              /\ thrown' = ErrUnknownMode
              /\ UNCHANGED nativeVars

\* autoDetect(), up to its first await.
AutoDetect ==
    /\ createPc = "idle"
    /\ mode' = "auto"
    /\ provider' = "native"
    /\ createPc' = "nativeInit"
    /\ Initialize(1)
    /\ UNCHANGED <<returned, thrown, fallbackCause>>

\* Mutant: the catch block rethrows instead of falling back.
AfterNativeFailureRethrows(m) == "threw"

\* Where the call goes when the awaited out-of-process initialize() threw:
\* the catch block of the fallback builds the in-process provider and goes on
\* to initialize it; outside such a try block the error leaves the call.
AfterNativeFailure(m) == IF FallsBack(m) THEN "browserInit" ELSE "threw"

\* The call resumes from the await of the out-of-process initialize().
NativeInitializeSettles ==
    /\ createPc = "nativeInit"
    /\ InitializeReturn(1)
    /\ UNCHANGED mode
    /\ IF inits'[1].st = "ok"
       THEN /\ createPc' = "returned"
            /\ returned' = "native"
            /\ UNCHANGED <<provider, thrown, fallbackCause>>
       ELSE /\ createPc' = AfterNativeFailure(mode)
            /\ IF AfterNativeFailure(mode) = "browserInit"
               THEN /\ provider' = "browser"
                    /\ fallbackCause' = ErrUnavailable
                    /\ UNCHANGED <<returned, thrown>>
               ELSE /\ thrown' = ErrUnavailable
                    /\ UNCHANGED <<provider, returned, fallbackCause>>

\* The call resumes from the await of the in-process initialize() and
\* returns the in-process provider.
BrowserInitializeSettles ==
    /\ createPc = "browserInit"
    /\ createPc' = "returned"
    /\ returned' = provider
    /\ UNCHANGED <<mode, provider, thrown, fallbackCause>>
    /\ UNCHANGED nativeVars

\* The caller uses the out-of-process provider it was handed.
CallerSends == returned = "native" /\ SendNativeMessage /\ UNCHANGED <<factoryVars, teachVars, pureVars, storeVars>>
CallerDisposes == returned = "native" /\ Dispose /\ UNCHANGED <<factoryVars, teachVars, pureVars, storeVars>>

FactoryInit == Init

FactoryNext ==
    \/ \E m \in Modes : Create(m) /\ UNCHANGED <<teachVars, pureVars, storeVars>>
    \/ AutoDetect /\ UNCHANGED <<teachVars, pureVars, storeVars>>
    \/ NativeInitializeSettles /\ UNCHANGED <<teachVars, pureVars, storeVars>>
    \/ BrowserInitializeSettles /\ UNCHANGED <<teachVars, pureVars, storeVars>>
    \/ \E i \in Ids : TimeoutCallback(i) /\ UNCHANGED <<factoryVars, teachVars, pureVars, storeVars>>
    \/ \E m \in Messages : HandleNativeMessage(m) /\ UNCHANGED <<factoryVars, teachVars, pureVars, storeVars>>
    \/ \E c \in InitCalls : OnDisconnect(c) /\ UNCHANGED <<factoryVars, teachVars, pureVars, storeVars>>
    \/ CallerSends
    \/ CallerDisposes

FactorySpec == FactoryInit /\ [][FactoryNext]_vars

\* --------------------------------------------------------------- teaching
\* TeachingService.  Each method is cut at its awaits; what an awaited call
\* of the browser (screenshot, model, scripting, storage) hands back is the
\* input of the step that resumes the method.  A script injected with
\* chrome.scripting.executeScript takes effect in the page in the step in
\* which its promise resolves, and has no effect when the promise rejects.
\* One call of each of startTeaching, endTeaching and saveSession is in
\* flight at a time; calls of different methods interleave freely.

\* startTeaching calls made on the service.
MaxStarts == 2
\* annotateElement calls made on the service.
MaxAnnotations == 2

ErrNoSession == "No active teaching session"
ErrCapture == "capture failed"
ErrDetect == "Failed to detect elements"
ErrViewport == "Failed to get viewport dimensions"
ErrScript == "executeScript failed"
ErrStorage == "storage failed"

\* The session objects something still refers to: the registry, and the local
\* variable session of a suspended saveSession.
Referenced(active, save) ==
    {active[t] : t \in DOMAIN active}
        \cup (IF save.pc = "idle" THEN {} ELSE {save.session})

\* The heap without the objects nothing refers to any more.
Collect(heap, active, save) ==
    [r \in DOMAIN heap \cap Referenced(active, save) |-> heap[r]]

\* startTeaching(tabId, url), up to the await of captureScreenshot.
StartTeaching(t, u) ==
    /\ startCall.pc = "idle"
    /\ starts < MaxStarts
    /\ starts' = starts + 1
    /\ startCall' = [NoStartCall EXCEPT !.pc = "capture", !.tabId = t, !.url = u]
    /\ UNCHANGED <<activeSessions, sessions, endCall, saveCall, annotateCall,
                   overlay, storage>>

\* The catch block of startTeaching: log and rethrow.
StartThrows(err) ==
    /\ startCall' = [startCall EXCEPT !.pc = "idle", !.text = <<>>,
                                      !.outcome = err]
    /\ UNCHANGED <<activeSessions, sessions, starts, endCall, saveCall, annotateCall, overlay,
                   storage>>

\* captureScreenshot settles; on success detectElements calls the model.
CaptureSettles(ok) ==
    /\ startCall.pc = "capture"
    /\ IF ok
       THEN /\ startCall' = [startCall EXCEPT !.pc = "model"]
            /\ UNCHANGED <<activeSessions, sessions, starts, endCall, saveCall,
                           annotateCall, overlay, storage>>
       ELSE StartThrows(ErrCapture)

\* if (!response.success || !response.text)
ResponseUsable(response) == response.success /\ response.text # TextEmpty

\* callVisionModel settles; detectElements parses the boxes and asks the page
\* for its viewport.
ModelSettles(response) ==
    /\ startCall.pc = "model"
    /\ IF ResponseUsable(response)
       THEN /\ startCall' = [startCall EXCEPT !.pc = "viewport",
                                              !.text = response.text]
            /\ UNCHANGED <<activeSessions, sessions, starts, endCall, saveCall,
                           annotateCall, overlay, storage>>
       ELSE StartThrows(ErrDetect)

\* Mutant: the annotations of the session the tab has are taken over.
NewSessionKeepsAnnotations(t, u, elements) ==
    [tabId |-> t, url |-> u, detectedElements |-> elements,
     userAnnotations |-> IF t \in DOMAIN activeSessions
                         THEN sessions[activeSessions[t]].userAnnotations
                         ELSE EmptyMap]

\* The session object startTeaching builds.
NewSession(t, u, elements) ==
    [tabId |-> t, url |-> u, detectedElements |-> elements,
     userAnnotations |-> EmptyMap]

\* The viewport query settles; detectElements builds the elements and
\* returns; startTeaching builds the session, registers it and calls
\* drawElementOverlays.  The new session object is the starts-th one.
ViewportSettles(viewport) ==
    /\ startCall.pc = "viewport"
    /\ IF viewport # NoViewport
       THEN /\ activeSessions' = MapSet(activeSessions, startCall.tabId, starts)
            /\ sessions' =
                 Collect(MapSet(sessions, starts,
                                NewSession(startCall.tabId, startCall.url,
                                           DetectElements(startCall.text, viewport))),
                         activeSessions', saveCall)
            /\ startCall' = [startCall EXCEPT !.pc = "draw", !.text = <<>>,
                                              !.session = starts]
            /\ UNCHANGED <<starts, endCall, saveCall, annotateCall, overlay, storage>>
       ELSE StartThrows(ErrViewport)

\* The script of drawElementOverlays, run in the page with the elements of
\* session s: remove the element with id 'teaching-mode-overlay', append a
\* new one with the numbered boxes of s.
DrawnOverlays(page, s) == s

\* drawElementOverlays settles; startTeaching returns the session.
DrawSettles(ok) ==
    /\ startCall.pc = "draw"
    /\ IF ok
       THEN /\ overlay' = [overlay EXCEPT ![startCall.tabId] =
                                          DrawnOverlays(@, startCall.session)]
            /\ startCall' = [startCall EXCEPT !.pc = "idle", !.outcome = "returned"]
            /\ UNCHANGED <<activeSessions, sessions, starts, endCall, saveCall, annotateCall,
                           storage>>
       ELSE StartThrows(ErrScript)

\* session.detectedElements.find(e => e.id === elementId): the position of
\* the first element with that id, 0 for undefined.
FindElement(elements, elementId) ==
    LET at == {p \in 1 .. Len(elements) : elements[p].id = elementId}
    IN  IF at = {} THEN 0 ELSE Min(at)

\* Mutant: an annotation does not replace an earlier one of the element.
ElementsAfterAnnotateKeepsFirst(elements, elementId, description) ==
    IF /\ FindElement(elements, elementId) # 0
       /\ elements[FindElement(elements, elementId)].userDescription = Undefined
    THEN [elements EXCEPT ![FindElement(elements, elementId)].userDescription =
                              description]
    ELSE elements

\* if (element) { element.userDescription = description; }
ElementsAfterAnnotate(elements, elementId, description) ==
    IF FindElement(elements, elementId) # 0
    THEN [elements EXCEPT ![FindElement(elements, elementId)].userDescription =
                              description]
    ELSE elements

\* session.userAnnotations.set(elementId, description)
AnnotationsAfterAnnotate(annotations, elementId, description) ==
    MapSet(annotations, elementId, description)

\* annotateElement(tabId, elementId, description); it has no await.
AnnotateElement(t, elementId, description) ==
    /\ annotateCall.made < MaxAnnotations
    /\ IF t \in DOMAIN activeSessions
       THEN /\ sessions' =
                 [sessions EXCEPT ![activeSessions[t]] =
                     [@ EXCEPT !.userAnnotations =
                                   AnnotationsAfterAnnotate(@, elementId, description),
                               !.detectedElements =
                                   ElementsAfterAnnotate(@, elementId, description)]]
            /\ annotateCall' = [made |-> annotateCall.made + 1,
                                 outcome |-> "returned"]
       ELSE /\ annotateCall' = [made |-> annotateCall.made + 1,
                                 outcome |-> ErrNoSession]
            /\ UNCHANGED sessions
    /\ UNCHANGED <<activeSessions, starts, startCall, endCall, saveCall, overlay, storage>>

\* The calls of annotateElement made on tab t.
Annotate(t) ==
    \E description \in Descriptions :
        \E elementId \in ElementIdInputs :
            AnnotateElement(t, elementId, description)

\* ------------------------------------------------------------ saveSession
\* Mutant: the query string is part of the normalized URL.
NormalizedUrlWithSearch(u) == <<u.protocol, "//", u.hostname, u.pathname, u.search>>

\* `${urlObj.protocol}//${urlObj.hostname}${urlObj.pathname}`
NormalizedUrl(u) == <<u.protocol, "//", u.hostname, u.pathname>>

\* TeachingStorage.generateUrlHash.  simpleHash is a function of the
\* normalized string; the model keeps the string it is applied to.
GenerateUrlHash(u) == NormalizedUrl(u)

\* `${STORAGE_KEY_PREFIX}${memory.urlHash}`
StorageKey(urlHash) == <<"ui_memory_">> \o urlHash

\* The PageMemory saveSession builds from the session object and the viewport.
PageMemoryOf(session, viewport) ==
    [url |-> session.url,
     urlHash |-> GenerateUrlHash(session.url),
     domain |-> session.url.hostname,
     elements |-> session.detectedElements,
     viewport |-> viewport]

\* Mutant: without a session saveSession returns as if it had saved.
SaveSessionReturnsWithoutSession(t) ==
    /\ saveCall.pc = "idle"
    /\ IF t \in DOMAIN activeSessions
       THEN saveCall' = [NoSaveCall EXCEPT !.pc = "viewport", !.tabId = t,
                                           !.session = activeSessions[t]]
       ELSE saveCall' = [NoSaveCall EXCEPT !.tabId = t, !.outcome = "returned"]
    /\ UNCHANGED <<activeSessions, sessions, starts, startCall, endCall, annotateCall, overlay,
                   storage>>

\* saveSession(tabId), up to the await of the viewport query.
SaveSession(t) ==
    /\ saveCall.pc = "idle"
    /\ IF t \in DOMAIN activeSessions
       THEN saveCall' = [NoSaveCall EXCEPT !.pc = "viewport", !.tabId = t,
                                           !.session = activeSessions[t]]
       ELSE saveCall' = [NoSaveCall EXCEPT !.tabId = t, !.outcome = ErrNoSession]
    /\ UNCHANGED <<activeSessions, sessions, starts, startCall, endCall, annotateCall, overlay,
                   storage>>

\* Mutant: a failed save unregisters the session.
SaveThrowsDropsSession(err) ==
    /\ saveCall' = [saveCall EXCEPT !.pc = "idle", !.memory = NoMemory,
                                    !.outcome = err]
    /\ activeSessions' = MapDelete(activeSessions, saveCall.tabId)
    /\ sessions' = Collect(sessions, activeSessions', saveCall')
    /\ UNCHANGED <<starts, startCall, endCall, annotateCall, overlay, storage>>

\* The catch block of saveSession: log and rethrow.  The local variable
\* session goes out of scope.
SaveThrows(err) ==
    /\ saveCall' = [saveCall EXCEPT !.pc = "idle", !.memory = NoMemory,
                                    !.outcome = err]
    /\ sessions' = Collect(sessions, activeSessions, saveCall')
    /\ UNCHANGED <<activeSessions, starts, startCall, endCall, annotateCall, overlay, storage>>

\* The viewport query settles; saveSession builds the PageMemory from the
\* session object it holds and hands it to chrome.storage.local.set, which
\* takes a copy.
SaveViewportSettles(viewport) ==
    /\ saveCall.pc = "viewport"
    /\ IF viewport # NoViewport
       THEN /\ saveCall' = [saveCall EXCEPT
                               !.pc = "set",
                               !.memory = PageMemoryOf(sessions[saveCall.session],
                                                       viewport)]
            /\ UNCHANGED <<activeSessions, sessions, starts, startCall, endCall,
                           annotateCall, overlay, storage>>
       ELSE SaveThrows(ErrViewport)

\* chrome.storage.local.set settles; saveSession returns.
SaveSetSettles(ok) ==
    /\ saveCall.pc = "set"
    /\ IF ok
       THEN /\ storage' = MapSet(storage, StorageKey(saveCall.memory.urlHash),
                                 saveCall.memory)
            /\ saveCall' = [saveCall EXCEPT !.pc = "idle", !.memory = NoMemory,
                                            !.outcome = "returned"]
            /\ sessions' = Collect(sessions, activeSessions, saveCall')
            /\ UNCHANGED <<activeSessions, starts, startCall, endCall, annotateCall, overlay>>
       ELSE SaveThrows(ErrStorage)

\* ------------------------------------------------------------ endTeaching
\* this.activeSessions.delete(tabId)
AfterEndDelete(active, t) == MapDelete(active, t)

\* The script of GroundingActions.clearOverlays, run in the page: remove the
\* element with id 'vision-grounding-overlay'.  The teaching overlay has the
\* id 'teaching-mode-overlay' and stays as it is.
ClearedOverlays(page) == page

\* endTeaching(tabId), up to the await of clearOverlays; it returns at once
\* when the tab has no session.  Its local variable session holds the session
\* object it found.
EndTeaching(t) ==
    /\ endCall.pc = "idle"
    /\ IF t \in DOMAIN activeSessions
       THEN endCall' = [pc |-> "clear", tabId |-> t,
                        session |-> activeSessions[t], outcome |-> "none"]
       ELSE endCall' = [pc |-> "idle", tabId |-> t, session |-> 0,
                        outcome |-> "returned"]
    /\ UNCHANGED <<activeSessions, sessions, starts, startCall, saveCall, annotateCall, overlay,
                   storage>>

\* Mutant: endTeaching also wipes the store.
ClearSettlesWipesStore(ok) ==
    /\ endCall.pc = "clear"
    /\ IF ok
       THEN /\ overlay' = [overlay EXCEPT ![endCall.tabId] = ClearedOverlays(@)]
            /\ activeSessions' = AfterEndDelete(activeSessions, endCall.tabId)
            /\ sessions' = Collect(sessions, activeSessions', saveCall)
            /\ endCall' = [endCall EXCEPT !.pc = "idle", !.session = 0,
                                          !.outcome = "returned"]
            /\ storage' = EmptyMap
       ELSE /\ endCall' = [endCall EXCEPT !.pc = "idle", !.session = 0,
                                          !.outcome = ErrScript]
            /\ UNCHANGED <<activeSessions, sessions, overlay, storage>>
    /\ UNCHANGED <<starts, startCall, saveCall, annotateCall>>

\* clearOverlays settles; endTeaching deletes the registry entry of the tab
\* and returns.  When the script could not be injected the error leaves
\* endTeaching before the delete.
ClearSettles(ok) ==
    /\ endCall.pc = "clear"
    /\ IF ok
       THEN /\ overlay' = [overlay EXCEPT ![endCall.tabId] = ClearedOverlays(@)]
            /\ activeSessions' = AfterEndDelete(activeSessions, endCall.tabId)
            /\ sessions' = Collect(sessions, activeSessions', saveCall)
            /\ endCall' = [endCall EXCEPT !.pc = "idle", !.session = 0,
                                          !.outcome = "returned"]
       ELSE /\ endCall' = [endCall EXCEPT !.pc = "idle", !.session = 0,
                                          !.outcome = ErrScript]
            /\ UNCHANGED <<activeSessions, sessions, overlay>>
    /\ UNCHANGED <<starts, startCall, saveCall, annotateCall, storage>>

\* ------------------------------------------------- the end_teaching action
\* The action awaits saveSession(tabId) when input.save is set and then
\* awaits endTeaching(tabId); nothing catches in between.  The service does
\* not know its caller, so every saveSession call may be the one of such an
\* action, and every endTeaching call the one that follows.

\* The step in which `await saveSession(page.tabId)` throws: the action is
\* left with that error and endTeaching is not called.
ActionLeftBySaveError ==
    /\ saveCall'.pc = "idle"
    /\ saveCall' # saveCall
    /\ saveCall'.outcome # "returned"

\* The step in which `await endTeaching(page.tabId)` settles: the action
\* reports success when it returned, and is left with the error otherwise.
ActionLeftAfterEnd ==
    /\ endCall'.pc = "idle"
    /\ endCall' # endCall

TeachInit == Init

TeachNext ==
    \/ \E t \in Tabs, u \in Urls : StartTeaching(t, u) /\ UNCHANGED <<nativeVars, factoryVars, pureVars, storeVars>>
    \/ \E ok \in BOOLEAN : CaptureSettles(ok) /\ UNCHANGED <<nativeVars, factoryVars, pureVars, storeVars>>
    \/ \E r \in Responses : ModelSettles(r) /\ UNCHANGED <<nativeVars, factoryVars, pureVars, storeVars>>
    \/ \E v \in Viewports \cup {NoViewport} :
           ViewportSettles(v) /\ UNCHANGED <<nativeVars, factoryVars, pureVars, storeVars>>
    \/ \E ok \in BOOLEAN : DrawSettles(ok) /\ UNCHANGED <<nativeVars, factoryVars, pureVars, storeVars>>
    \/ \E t \in Tabs : Annotate(t) /\ UNCHANGED <<nativeVars, factoryVars, pureVars, storeVars>>
    \/ \E t \in Tabs : SaveSession(t) /\ UNCHANGED <<nativeVars, factoryVars, pureVars, storeVars>>
    \/ \E v \in Viewports \cup {NoViewport} :
           SaveViewportSettles(v) /\ UNCHANGED <<nativeVars, factoryVars, pureVars, storeVars>>
    \/ \E ok \in BOOLEAN : SaveSetSettles(ok) /\ UNCHANGED <<nativeVars, factoryVars, pureVars, storeVars>>
    \/ \E t \in Tabs : EndTeaching(t) /\ UNCHANGED <<nativeVars, factoryVars, pureVars, storeVars>>
    \/ \E ok \in BOOLEAN : ClearSettles(ok) /\ UNCHANGED <<nativeVars, factoryVars, pureVars, storeVars>>

TeachSpec == TeachInit /\ [][TeachNext]_vars

\* ---------------------------------------------------------- TeachingStorage
\* The static methods of TeachingStorage over chrome.storage.local, each cut
\* at its awaits.  A get hands back a copy of what is stored when it settles;
\* a set stores the copy of its argument taken when it was called, and a
\* remove removes the keys it was called with, when they settle.  A call of
\* the store that fails rejects and changes nothing.

\* Calls of TeachingStorage made in one behaviour.
MaxStoreCalls == 3

ErrPageNotFound == "Page memory not found"
ErrElementNotFound == "Element not found"

\* The URLs the calls are made with: a page, the same page with another
\* query string, the same page with a fragment, and another page of the
\* same site.
StoreUrl(pathname, search, hash) ==
    [protocol |-> "https:", hostname |-> "a.example", pathname |-> pathname,
     search |-> search, hash |-> hash]
StoreUrls ==
    {StoreUrl("/form", "?step=1", ""), StoreUrl("/form", "?step=2", ""),
     StoreUrl("/form", "?step=1", "#top"), StoreUrl("/other", "", "")}
StoreDomains == {"a.example"}
StoreDescriptions == {"confirm"}

\* The PageMemory saveSession builds for a session on url whose elements are
\* the two detected in TextMalformed.
MemoryFor(url) ==
    LET viewport == CHOOSE v \in Viewports : TRUE
    IN  PageMemoryOf([url |-> url,
                      detectedElements |-> DetectElements(TextMalformed, viewport)],
                     viewport)
\* The element ids updateElementDescription is called with: those of the
\* elements, and one more.
StoreElementIds == 1 .. Len(MemoryFor(CHOOSE u \in StoreUrls : TRUE).elements) + 1

\* `${STORAGE_KEY_PREFIX}${urlHash}` for the hash of url
KeyOf(url) == StorageKey(GenerateUrlHash(url))

\* The keys of the store that start with STORAGE_KEY_PREFIX.
MemoryKeys(store) == {k \in DOMAIN store : k[1] = "ui_memory_"}

\* result[key] as PageMemory | undefined; NoMemory stands for undefined and
\* for null.
Lookup(store, key) == IF key \in DOMAIN store THEN store[key] ELSE NoMemory

\* chrome.storage.local.remove(keys)
MapRemove(f, keys) == [x \in DOMAIN f \ keys |-> f[x]]

RECURSIVE SumOver(_, _)
SumOver(f, S) ==
    IF S = {} THEN 0
    ELSE LET x == CHOOSE y \in S : TRUE IN f[x] + SumOver(f, S \ {x})

NoStats == [totalMemories |-> 0, totalElements |-> 0, bytesUsed |-> "0"]

\* A caller starts a call.
Begin(c, call) ==
    /\ storeMade < MaxStoreCalls
    /\ storeCalls[c].pc = "idle"
    /\ \A d \in Callers : d < c => storeCalls[d].pc # "idle"
    /\ storeCalls' = [storeCalls EXCEPT ![c] = call]
    /\ storeMade' = storeMade + 1
    /\ UNCHANGED storage

\* The call of caller c ends: it returns or throws.
Ends(c, how, result) ==
    storeCalls' = [storeCalls EXCEPT ![c].pc = "idle", ![c].outcome = how,
                                     ![c].result = result]

\* savePageMemory(memory), up to the await of chrome.storage.local.set
SavePageMemory(c, memory) ==
    Begin(c, [NoStoreCallRecord EXCEPT !.op = "savePageMemory", !.pc = "set",
                                       !.url = memory.url, !.memory = memory])

\* getPageMemory(url), up to the await of chrome.storage.local.get
GetPageMemory(c, url) ==
    Begin(c, [NoStoreCallRecord EXCEPT !.op = "getPageMemory", !.pc = "get",
                                       !.url = url])

\* getDomainMemories(domain), up to the await of chrome.storage.local.get
GetDomainMemories(c, domain) ==
    Begin(c, [NoStoreCallRecord EXCEPT !.op = "getDomainMemories",
                                       !.pc = "getAll", !.domain = domain])

\* updateElementDescription(url, elementId, userDescription), up to the await
\* of chrome.storage.local.get inside getPageMemory
UpdateElementDescription(c, url, elementId, userDescription) ==
    Begin(c, [NoStoreCallRecord EXCEPT !.op = "updateElementDescription",
                                       !.pc = "get", !.url = url,
                                       !.elementId = elementId,
                                       !.userDescription = userDescription])

\* deletePageMemory(url), up to the await of chrome.storage.local.remove
DeletePageMemory(c, url) ==
    Begin(c, [NoStoreCallRecord EXCEPT !.op = "deletePageMemory",
                                       !.pc = "remove", !.url = url,
                                       !.keys = {KeyOf(url)}])

\* clearAllMemories(), up to the await of chrome.storage.local.get(null)
ClearAllMemories(c) ==
    Begin(c, [NoStoreCallRecord EXCEPT !.op = "clearAllMemories", !.pc = "getAll"])

\* getStats(), up to the await of chrome.storage.local.get(null)
GetStats(c) ==
    Begin(c, [NoStoreCallRecord EXCEPT !.op = "getStats", !.pc = "getAll"])

\* chrome.storage.local.set settles: savePageMemory returns, or logs and
\* rethrows; so does updateElementDescription around it.
SetSettles(c, ok) ==
    /\ storeCalls[c].pc = "set"
    /\ IF ok
       THEN /\ storage' = MapSet(storage, StorageKey(storeCalls[c].memory.urlHash),
                                 storeCalls[c].memory)
            /\ Ends(c, "returned", <<>>)
       ELSE /\ Ends(c, ErrStorage, <<>>)
            /\ UNCHANGED storage
    /\ UNCHANGED storeMade

\* memory.elements.find(e => e.id === elementId); element.userDescription =
\* userDescription.  The memory is left as it is when no element has the id.
WithDescription(memory, elementId, userDescription) ==
    [memory EXCEPT !.elements = ElementsAfterAnnotate(@, elementId, userDescription)]

\* What getPageMemory hands back when its chrome.storage.local.get settles:
\* the stored memory, null when there is none, and null from its catch block
\* when the get failed.
GetPageMemoryResult(store, url, ok) ==
    IF ok THEN Lookup(store, KeyOf(url)) ELSE NoMemory

\* chrome.storage.local.get(key) settles.  getPageMemory returns;
\* updateElementDescription goes on with what getPageMemory returned, up to
\* the await of chrome.storage.local.set inside savePageMemory.
GetSettles(c, ok) ==
    LET call == storeCalls[c]
        memory == GetPageMemoryResult(storage, call.url, ok)
    IN  /\ call.pc = "get"
        /\ IF call.op = "getPageMemory"
           THEN Ends(c, "returned", memory)
           ELSE IF memory = NoMemory
                THEN Ends(c, ErrPageNotFound, <<>>)
                ELSE IF FindElement(memory.elements, call.elementId) = 0
                     THEN Ends(c, ErrElementNotFound, <<>>)
                     ELSE storeCalls' =
                              [storeCalls EXCEPT
                                  ![c].pc = "set",
                                  ![c].memory =
                                      WithDescription(memory, call.elementId,
                                                      call.userDescription)]
        /\ UNCHANGED <<storage, storeMade>>

\* The memories of the snapshot whose domain is the one asked for.
DomainMemories(store, domain) ==
    {store[k] : k \in {j \in MemoryKeys(store) : store[j].domain = domain}}

\* totalMemories and totalElements of the snapshot
StatsOf(store) ==
    [totalMemories |-> Cardinality(MemoryKeys(store)),
     totalElements |-> SumOver([k \in MemoryKeys(store) |-> Len(store[k].elements)],
                               MemoryKeys(store)),
     bytesUsed |-> "0"]

\* chrome.storage.local.get(null) settles.  getDomainMemories returns the
\* memories of the domain, [] from its catch block; clearAllMemories goes on
\* to remove the keys it found, or rethrows; getStats goes on to getBytesInUse,
\* or returns zeros from its catch block.
GetAllSettles(c, ok) ==
    LET call == storeCalls[c]
    IN  /\ call.pc = "getAll"
        /\ CASE call.op = "getDomainMemories" ->
                    Ends(c, "returned",
                         IF ok THEN DomainMemories(storage, call.domain) ELSE {})
             [] call.op = "clearAllMemories" ->
                    IF ok
                    THEN storeCalls' = [storeCalls EXCEPT
                                           ![c].pc = "remove",
                                           ![c].keys = MemoryKeys(storage)]
                    ELSE Ends(c, ErrStorage, <<>>)
             [] call.op = "getStats" ->
                    IF ok
                    THEN storeCalls' = [storeCalls EXCEPT
                                           ![c].pc = "bytes",
                                           ![c].result = StatsOf(storage)]
                    ELSE Ends(c, "returned", NoStats)
        /\ UNCHANGED <<storage, storeMade>>

\* chrome.storage.local.remove settles: deletePageMemory and clearAllMemories
\* return, or log and rethrow.
RemoveSettles(c, ok) ==
    /\ storeCalls[c].pc = "remove"
    /\ IF ok
       THEN /\ storage' = MapRemove(storage, storeCalls[c].keys)
            /\ Ends(c, "returned", <<>>)
       ELSE /\ Ends(c, ErrStorage, <<>>)
            /\ UNCHANGED storage
    /\ UNCHANGED storeMade

\* chrome.storage.local.getBytesInUse settles: getStats returns the totals
\* with the bytes in use ("n" for the number handed back), or zeros from its
\* catch block.
BytesSettles(c, ok) ==
    /\ storeCalls[c].pc = "bytes"
    /\ Ends(c, "returned",
            IF ok THEN [storeCalls[c].result EXCEPT !.bytesUsed = "n"] ELSE NoStats)
    /\ UNCHANGED <<storage, storeMade>>

StoreInit == Init

StoreNext ==
    \/ \E c \in Callers, url \in StoreUrls :
           SavePageMemory(c, MemoryFor(url))
               /\ UNCHANGED <<nativeVars, factoryVars, serviceVars, pureVars>>
    \/ \E c \in Callers, url \in StoreUrls :
           GetPageMemory(c, url)
               /\ UNCHANGED <<nativeVars, factoryVars, serviceVars, pureVars>>
    \/ \E c \in Callers, domain \in StoreDomains :
           GetDomainMemories(c, domain)
               /\ UNCHANGED <<nativeVars, factoryVars, serviceVars, pureVars>>
    \/ \E c \in Callers, url \in StoreUrls, elementId \in StoreElementIds,
          userDescription \in StoreDescriptions :
           UpdateElementDescription(c, url, elementId, userDescription)
               /\ UNCHANGED <<nativeVars, factoryVars, serviceVars, pureVars>>
    \/ \E c \in Callers, url \in StoreUrls :
           DeletePageMemory(c, url)
               /\ UNCHANGED <<nativeVars, factoryVars, serviceVars, pureVars>>
    \/ \E c \in Callers :
           ClearAllMemories(c)
               /\ UNCHANGED <<nativeVars, factoryVars, serviceVars, pureVars>>
    \/ \E c \in Callers :
           GetStats(c) /\ UNCHANGED <<nativeVars, factoryVars, serviceVars, pureVars>>
    \/ \E c \in Callers, ok \in BOOLEAN :
           SetSettles(c, ok)
               /\ UNCHANGED <<nativeVars, factoryVars, serviceVars, pureVars>>
    \/ \E c \in Callers, ok \in BOOLEAN :
           GetSettles(c, ok)
               /\ UNCHANGED <<nativeVars, factoryVars, serviceVars, pureVars>>
    \/ \E c \in Callers, ok \in BOOLEAN :
           GetAllSettles(c, ok)
               /\ UNCHANGED <<nativeVars, factoryVars, serviceVars, pureVars>>
    \/ \E c \in Callers, ok \in BOOLEAN :
           RemoveSettles(c, ok)
               /\ UNCHANGED <<nativeVars, factoryVars, serviceVars, pureVars>>
    \/ \E c \in Callers, ok \in BOOLEAN :
           BytesSettles(c, ok)
               /\ UNCHANGED <<nativeVars, factoryVars, serviceVars, pureVars>>

StoreSpec == StoreInit /\ [][StoreNext]_vars

\* --------------------------------------------------------- pure functions
\* GroundingParser's static methods and TeachingService.matchElements read
\* and write nothing but their arguments.  A call is one step: it records
\* the arguments it was made with and the value it returned.  What a call
\* returns does not depend on the calls before it, so a behaviour makes one.

\* A JavaScript number that came out of a division: num / den with den >= 0.
\* 0 / 0 is NaN.
Ratio(num, den) == [num |-> num, den |-> den]
Zero == Ratio(0, 1)
One == Ratio(1, 1)
Half == Ratio(1, 2)
IsNaN(v) == v.num = 0 /\ v.den = 0
\* a === b, a > b, a >= b: every comparison with NaN is false
NumEq(a, b) == ~IsNaN(a) /\ ~IsNaN(b) /\ a.num * b.den = b.num * a.den
NumGt(a, b) == ~IsNaN(a) /\ ~IsNaN(b) /\ a.num * b.den > b.num * a.den
NumGeq(a, b) == NumGt(a, b) \/ NumEq(a, b)

MaxOf(a, b) == IF a >= b THEN a ELSE b
MinOf(a, b) == IF a <= b THEN a ELSE b

\* x2 < x1 || y2 < y1
IntersectionEmpty(x1, y1, x2, y2) == x2 < x1 \/ y2 < y1

\* GroundingParser.calculateIoU
CalculateIoU(box1, box2) ==
    LET x1 == MaxOf(box1.x1, box2.x1)
        y1 == MaxOf(box1.y1, box2.y1)
        x2 == MinOf(box1.x2, box2.x2)
        y2 == MinOf(box1.y2, box2.y2)
        intersectionArea == (x2 - x1) * (y2 - y1)
        box1Area == (box1.x2 - box1.x1) * (box1.y2 - box1.y1)
        box2Area == (box2.x2 - box2.x1) * (box2.y2 - box2.y1)
        unionArea == box1Area + box2Area - intersectionArea
    IN  IF IntersectionEmpty(x1, y1, x2, y2)
        THEN Zero
        ELSE Ratio(intersectionArea, unionArea)

\* Math.round((normalized / 1000) * dimension), for normalized >= 0 and
\* dimension > 0
NormalizedToPixel(normalized, dimension) ==
    (2 * normalized * dimension + 1000) \div (2 * 1000)

\* The initial bestMatch of matchElements.
NoMatch(remembered) ==
    [element |-> remembered, similarity |-> Zero, matched |-> FALSE]

\* matched: iou > 0.5
Matched(iou) == NumGt(iou, Half)

\* The inner loop of matchElements over currentElements[j..]:
\* if (iou > bestMatch.similarity) bestMatch = {...}
RECURSIVE BestMatch(_, _, _, _)
BestMatch(currentElements, j, remembered, bestMatch) ==
    IF j > Len(currentElements)
    THEN bestMatch
    ELSE LET iou == CalculateIoU(currentElements[j].normalizedBbox,
                                 remembered.normalizedBbox)
         IN  BestMatch(currentElements, j + 1, remembered,
                       IF NumGt(iou, bestMatch.similarity)
                       THEN [element |-> remembered, similarity |-> iou,
                             matched |-> Matched(iou)]
                       ELSE bestMatch)

\* TeachingService.matchElements
MatchElements(currentElements, rememberedElements) ==
    [i \in 1 .. Len(rememberedElements) |->
        BestMatch(currentElements, 1, rememberedElements[i],
                  NoMatch(rememberedElements[i]))]

\* ---- boxRegex, character by character
\* The text as boxRegex reads it: a sequence of characters, where the
\* strings "<box>" and "</box>" and a maximal run of digits count as one
\* character each, and "x" is any character the pattern has no use for.
Ch(c) == [c |-> c, ds |-> <<>>]
Digits(ds) == [c |-> "digits", ds |-> ds]

\* <box>\((NUM),(NUM)\),\((NUM),(NUM)\)<\/box>  with NUM = \d+(?:\.\d+)?
BoxPattern ==
    <<"<box>", "(", "NUM", ",", "NUM", ")", ",", "(", "NUM", ",", "NUM", ")",
      "</box>">>

\* Mutant: NUM = \d+
NumberLenDigitsOnly(chars, i) ==
    IF i <= Len(chars) /\ chars[i].c = "digits" THEN 1 ELSE 0

\* How many characters \d+(?:\.\d+)? takes at position i; 0 when it does not
\* match there.  The character after NUM in the pattern is "," or ")", so
\* the shorter alternative never succeeds where the longer one applies.
NumberLen(chars, i) ==
    IF i <= Len(chars) /\ chars[i].c = "digits"
    THEN IF i + 2 <= Len(chars) /\ chars[i + 1].c = "." /\ chars[i + 2].c = "digits"
         THEN 3
         ELSE 1
    ELSE 0

NoRegexMatch == [found |-> FALSE, end |-> 0, groups |-> <<>>]

\* The pattern from its k-th item on, against the text from position i on.
RECURSIVE MatchFrom(_, _, _, _)
MatchFrom(chars, i, k, groups) ==
    IF k > Len(BoxPattern)
    THEN [found |-> TRUE, end |-> i, groups |-> groups]
    ELSE IF BoxPattern[k] = "NUM"
         THEN IF NumberLen(chars, i) = 0
              THEN NoRegexMatch
              ELSE MatchFrom(chars, i + NumberLen(chars, i), k + 1,
                             Append(groups,
                                    SubSeq(chars, i, i + NumberLen(chars, i) - 1)))
         ELSE IF i <= Len(chars) /\ chars[i].c = BoxPattern[k]
              THEN MatchFrom(chars, i + 1, k + 1, groups)
              ELSE NoRegexMatch

\* boxRegex.exec(text) with boxRegex.lastIndex = lastIndex: the first match
\* that starts at lastIndex or later.
RECURSIVE Exec(_, _)
Exec(chars, lastIndex) ==
    IF lastIndex > Len(chars)
    THEN NoRegexMatch
    ELSE IF MatchFrom(chars, lastIndex, 1, <<>>).found
         THEN MatchFrom(chars, lastIndex, 1, <<>>)
         ELSE Exec(chars, lastIndex + 1)

\* The value of a run of digits read as a decimal integer.
RECURSIVE DigitsValue(_)
DigitsValue(ds) ==
    IF ds = <<>> THEN 0 ELSE 10 * DigitsValue(SubSeq(ds, 1, Len(ds) - 1)) + ds[Len(ds)]

RECURSIVE Pow10(_)
Pow10(e) == IF e = 0 THEN 1 ELSE 10 * Pow10(e - 1)

RECURSIVE StripZeros(_)
StripZeros(ds) ==
    IF ds # <<>> /\ ds[Len(ds)] = 0 THEN StripZeros(SubSeq(ds, 1, Len(ds) - 1)) ELSE ds

\* parseFloat of what NUM matched: the number n / 10^e.  Zeros at the end
\* of the fraction do not change the number.
ParseFloat(group) ==
    LET frac == IF Len(group) = 3 THEN StripZeros(group[3].ds) ELSE <<>>
    IN  [n |-> DigitsValue(group[1].ds) * Pow10(Len(frac)) + DigitsValue(frac),
         e |-> Len(frac)]

\* The while loop of parseGrounding over boxRegex, from lastIndex on; what
\* extractBoundingBoxes keeps of it: the bbox of every match, in order.
RECURSIVE BoxesFrom(_, _)
BoxesFrom(chars, lastIndex) ==
    LET match == Exec(chars, lastIndex)
    IN  IF ~match.found
        THEN <<>>
        ELSE << [x1 |-> ParseFloat(match.groups[1]),
                 y1 |-> ParseFloat(match.groups[2]),
                 x2 |-> ParseFloat(match.groups[3]),
                 y2 |-> ParseFloat(match.groups[4])] >>
                 \o BoxesFrom(chars, match.end)

\* GroundingParser.extractBoundingBoxes on a text given character by
\* character.
ExtractBoundingBoxesOfChars(chars) == BoxesFrom(chars, 1)

\* ---- texts
\* Numerals as they are written, each with the number it denotes:
\* "10", "007", "10.5", "3.50", "0".
Numeral(whole, frac, n, e) ==
    [chars |-> IF frac = <<>>
               THEN <<Digits(whole)>>
               ELSE <<Digits(whole), Ch("."), Digits(frac)>>,
     value |-> [n |-> n, e |-> e]]
Ten == Numeral(<<1, 0>>, <<>>, 10, 0)
Seven == Numeral(<<0, 0, 7>>, <<>>, 7, 0)
TenAndHalf == Numeral(<<1, 0>>, <<5>>, 105, 1)
ThreeAndHalf == Numeral(<<3>>, <<5, 0>>, 35, 1)
Nought == Numeral(<<0>>, <<>>, 0, 0)

\* A piece of text together with the boxes of the well-formed tags in it.
\* `<box>(a,b),(c,d)</box>` written out:
WrittenTag(a, b, c, d) ==
    [chars |-> <<Ch("<box>"), Ch("(")>> \o a.chars \o <<Ch(",")>> \o b.chars
                   \o <<Ch(")"), Ch(","), Ch("(")>> \o c.chars \o <<Ch(",")>>
                   \o d.chars \o <<Ch(")"), Ch("</box>")>>,
     boxes |-> << [x1 |-> a.value, y1 |-> b.value, x2 |-> c.value,
                   y2 |-> d.value] >>]
\* text without a well-formed tag
Malformed(chars) == [chars |-> chars, boxes |-> <<>>]

TextPieces ==
    {WrittenTag(Ten, Seven, TenAndHalf, ThreeAndHalf),
     WrittenTag(Nought, Nought, Ten, Ten),
     \* OK button
     Malformed(<<Ch("x")>>),
     \* <box>
     Malformed(<<Ch("<box>")>>),
     \* <box>(10,007)</box>
     Malformed(<<Ch("<box>"), Ch("(")>> \o Ten.chars \o <<Ch(",")>> \o Seven.chars
                   \o <<Ch(")"), Ch("</box>")>>),
     \* <box>(0,0),(10,10)       (never closed)
     Malformed(SubSeq(WrittenTag(Nought, Nought, Ten, Ten).chars, 1, 12)),
     \* <box>(0, 0),(10,10)</box>
     Malformed(<<Ch("<box>"), Ch("("), Digits(<<0>>), Ch(","), Ch(" ")>>
                   \o SubSeq(WrittenTag(Nought, Nought, Ten, Ten).chars, 5, 13)),
     \* <box>(-10,0),(10,10)</box>
     Malformed(<<Ch("<box>"), Ch("("), Ch("-")>>
                   \o SubSeq(WrittenTag(Ten, Nought, Ten, Ten).chars, 3, 13)),
     \* <box>(10.,0),(10,10)</box>
     Malformed(<<Ch("<box>"), Ch("("), Digits(<<1, 0>>), Ch(".")>>
                   \o SubSeq(WrittenTag(Ten, Nought, Ten, Ten).chars, 4, 13)),
     \* <box>(.5,0),(10,10)</box>
     Malformed(<<Ch("<box>"), Ch("("), Ch("."), Digits(<<5>>)>>
                   \o SubSeq(WrittenTag(Ten, Nought, Ten, Ten).chars, 4, 13))}

\* Texts of at most three pieces.
PieceLists ==
    {<<>>} \cup {<<p>> : p \in TextPieces}
           \cup {<<p, q>> : p \in TextPieces, q \in TextPieces}
           \cup {<<p, q, r>> : p \in TextPieces, q \in TextPieces, r \in TextPieces}
CharsOf(pieces) == Concat([i \in DOMAIN pieces |-> pieces[i].chars])

\* ---- the arguments the calls are made with
\* Boxes on a small grid, among them boxes of no width or height and boxes
\* whose corners are the wrong way round.
Coordinates == 0 .. 2
IoUBoxes == [x1 : Coordinates, y1 : Coordinates, x2 : Coordinates, y2 : Coordinates]

\* The boxes of the elements matchElements is called with: a box, one that
\* covers half of it, one that covers all of it and half as much again, one
\* far away, and one of no width.
BoxOf(x1, y1, x2, y2) == [x1 |-> x1, y1 |-> y1, x2 |-> x2, y2 |-> y2]
MatchBoxes ==
    {BoxOf(0, 0, 2, 2), BoxOf(0, 0, 1, 2), BoxOf(0, 0, 3, 2), BoxOf(5, 5, 6, 6),
     BoxOf(4, 4, 4, 6)}
\* Lists of elements with ids 1, 2, ... and these boxes, at most two long.
ElementLists ==
    {<<>>}
      \cup {<<[id |-> 1, normalizedBbox |-> a]>> : a \in MatchBoxes}
      \cup {<<[id |-> 1, normalizedBbox |-> a], [id |-> 2, normalizedBbox |-> b]>> :
               a \in MatchBoxes, b \in MatchBoxes}

\* Widths and heights in pixels: small ones, the 1000 of the normalized
\* scale, a full-HD width and a 4K width.
Dimensions == {1, 3, 50, 100, 1000, 1920, 3840}

CallCalculateIoU(box1, box2) ==
    /\ pureCall.fn = "none"
    /\ pureCall' = [fn |-> "calculateIoU", box1 |-> box1, box2 |-> box2,
                    result |-> CalculateIoU(box1, box2)]
    /\ UNCHANGED <<nativeVars, factoryVars, teachVars, storeVars>>

CallMatchElements(currentElements, rememberedElements) ==
    /\ pureCall.fn = "none"
    /\ pureCall' = [fn |-> "matchElements", current |-> currentElements,
                    remembered |-> rememberedElements,
                    result |-> MatchElements(currentElements, rememberedElements)]
    /\ UNCHANGED <<nativeVars, factoryVars, teachVars, storeVars>>

\* normalizedToPixel(pixelToNormalized(pixel, dimension), dimension)
CallRoundTrip(pixel, dimension) ==
    /\ pureCall.fn = "none"
    /\ pureCall' = [fn |-> "roundTrip", pixel |-> pixel, dimension |-> dimension,
                    normalized |-> PixelToNormalized(pixel, dimension),
                    result |-> NormalizedToPixel(PixelToNormalized(pixel, dimension),
                                                 dimension)]
    /\ UNCHANGED <<nativeVars, factoryVars, teachVars, storeVars>>

CallExtractBoundingBoxes(pieces) ==
    /\ pureCall.fn = "none"
    /\ pureCall' = [fn |-> "extractBoundingBoxes", pieces |-> pieces,
                    result |-> ExtractBoundingBoxesOfChars(CharsOf(pieces))]
    /\ UNCHANGED <<nativeVars, factoryVars, teachVars, storeVars>>

\* ---- execute
\* execute(action) of both providers is a try block around one awaited
\* operation, with a catch block that turns what was thrown into a result.
\* What the call hands to its caller: a result value, or (threw) the error it
\* is left with.
ErrNotConnected == "Native messaging host not connected"
ErrNoActiveTab == "No active tab"
ErrScreenSize == "Failed to get screen size"
ErrChrome == "chrome call failed"
ErrUnknownAction == "Unknown action type"

ActionSucceeded(data) == [threw |-> FALSE, success |-> TRUE, data |-> data, error |-> ""]

\* Mutant: the catch block rethrows.
ActionFailedRethrows(error) ==
    [threw |-> TRUE, success |-> FALSE, data |-> "", error |-> error]

\* The catch block of execute:
\* return {success: false, error: error instanceof Error ? error.message : String(error)}
ActionFailed(error) == [threw |-> FALSE, success |-> FALSE, data |-> "", error |-> error]

\* How sendNativeMessage may end for the caller of execute: resolved by a
\* success answer, rejected by a failure answer with or without text, by the
\* timeout, a disconnect or dispose, or thrown at once without a port.
SendOutcomes ==
    {Resolved("X")} \cup
    {Rejected(e) : e \in {"E1", ErrUnknown, ErrTimeout, ErrDisconnected,
                          ErrDisposed, ErrNotConnected}}

\* NativeComputerProvider.execute, given how its sendNativeMessage ended.
NativeExecute(sendOutcome) ==
    IF sendOutcome.st = "resolved"
    THEN ActionSucceeded(sendOutcome.val)
    ELSE ActionFailed(sendOutcome.val)

\* this.tabId of the in-process provider: null until initialize() or
\* setTabId found a tab.
NoTab == 0
BrowserTabIds == {NoTab, 1}

\* The values of ComputerActionType, and one that is none of them.
KnownActionTypes ==
    {"screenshot", "click", "double_click", "right_click", "mouse_move", "drag",
     "type", "key_press", "scroll", "wait", "get_screen_size"}
ActionTypes == KnownActionTypes \cup {"swipe"}

\* How the chrome call a method awaits may end: it rejects, it resolves with
\* a result, or it resolves without one (no data URL, result.result empty).
ChromeOutcomes == {"rejects", "result", "empty"}

\* The method execute awaits for the action type, given this.tabId and how
\* the chrome call ends.  wait needs no tab and calls nothing of chrome; all
\* others throw 'No active tab' first; getScreenSize throws when the script
\* has no result; screenshot returns '' when there is no data URL; the
\* methods of the remaining types return nothing.
BrowserOperation(tabId, type, chrome) ==
    IF type = "wait" THEN Resolved("")
    ELSE IF tabId = NoTab THEN Rejected(ErrNoActiveTab)
    ELSE IF chrome = "rejects" THEN Rejected(ErrChrome)
    ELSE CASE type = "screenshot" ->
                  Resolved(IF chrome = "empty" THEN "" ELSE "png")
           [] type = "get_screen_size" ->
                  IF chrome = "empty" THEN Rejected(ErrScreenSize)
                  ELSE Resolved("size")
           [] OTHER -> Resolved("")

\* BrowserComputerProvider.execute: the switch over action.type inside the
\* try block.
BrowserExecute(tabId, type, chrome) ==
    IF type \notin KnownActionTypes
    THEN [threw |-> FALSE, success |-> FALSE, data |-> "", error |-> ErrUnknownAction]
    ELSE IF BrowserOperation(tabId, type, chrome).st = "resolved"
         THEN ActionSucceeded(BrowserOperation(tabId, type, chrome).val)
         ELSE ActionFailed(BrowserOperation(tabId, type, chrome).val)

CallNativeExecute(sendOutcome) ==
    /\ pureCall.fn = "none"
    /\ pureCall' = [fn |-> "nativeExecute", sendOutcome |-> sendOutcome,
                    result |-> NativeExecute(sendOutcome)]
    /\ UNCHANGED <<nativeVars, factoryVars, teachVars, storeVars>>

CallBrowserExecute(tabId, type, chrome) ==
    /\ pureCall.fn = "none"
    /\ pureCall' = [fn |-> "browserExecute", tabId |-> tabId, type |-> type,
                    chrome |-> chrome,
                    result |-> BrowserExecute(tabId, type, chrome)]
    /\ UNCHANGED <<nativeVars, factoryVars, teachVars, storeVars>>

PureInit == Init

PureNext ==
    \/ \E box1 \in IoUBoxes, box2 \in IoUBoxes : CallCalculateIoU(box1, box2)
    \/ \E current \in ElementLists, remembered \in ElementLists :
           CallMatchElements(current, remembered)
    \/ \E dimension \in Dimensions :
           \E pixel \in 0 .. dimension : CallRoundTrip(pixel, dimension)
    \/ \E pieces \in PieceLists : CallExtractBoundingBoxes(pieces)
    \/ \E sendOutcome \in SendOutcomes : CallNativeExecute(sendOutcome)
    \/ \E tabId \in BrowserTabIds, type \in ActionTypes, chrome \in ChromeOutcomes :
           CallBrowserExecute(tabId, type, chrome)

PureSpec == PureInit /\ [][PureNext]_vars

\* ------------------------------------------------------------ specification
\* A provider instance used directly by its owner.
Next ==
    \/ \E k \in InitCalls : Initialize(k) /\ UNCHANGED <<factoryVars, teachVars, pureVars, storeVars>>
    \/ \E k \in InitCalls : InitializeReturn(k) /\ UNCHANGED <<factoryVars, teachVars, pureVars, storeVars>>
    \/ SendNativeMessage /\ UNCHANGED <<factoryVars, teachVars, pureVars, storeVars>>
    \/ \E i \in Ids : TimeoutCallback(i) /\ UNCHANGED <<factoryVars, teachVars, pureVars, storeVars>>
    \/ \E m \in Messages : HandleNativeMessage(m) /\ UNCHANGED <<factoryVars, teachVars, pureVars, storeVars>>
    \/ \E c \in InitCalls : OnDisconnect(c) /\ UNCHANGED <<factoryVars, teachVars, pureVars, storeVars>>
    \/ Dispose /\ UNCHANGED <<factoryVars, teachVars, pureVars, storeVars>>

Spec == Init /\ [][Next]_vars

\* Timers are the one thing the runtime guarantees to run: a callback handed
\* to setTimeout is eventually called.
FairSpec ==
    Spec /\ \A i \in Ids : WF_vars(TimeoutCallback(i) /\ UNCHANGED <<factoryVars, teachVars, pureVars, storeVars>>)

TypeOK ==
    /\ port \in InitCalls \cup {NoPort}
    /\ open \subseteq InitCalls
    /\ messageId \in 0 .. MaxRequests
    /\ pendingMessages \subseteq Ids
    /\ timers \subseteq Ids
    /\ \A i \in Ids : outcome[i].st \in {"none", "pending", "resolved", "rejected"}

\* ------------------------------------------------------------------ claims
\* The step is handleNativeMessage run on some message with id i.
MessageFor(i) == \E m \in Messages : m.id = i /\ HandleNativeMessage(m)

\* Nothing of the correlation state of the ids other than i changes.
OthersUntouched(i) ==
    \A j \in Ids \ {i} :
        /\ outcome'[j] = outcome[j]
        /\ settleCalls'[j] = settleCalls[j]
        /\ (j \in pendingMessages') = (j \in pendingMessages)

\* C1: a message carrying the id of an entry of the pending table settles
\* exactly that request -- resolved with the message's data when success is
\* true, else rejected with the message's error text ('Unknown error' when it
\* has none) -- and removes its entry; every other entry stays as it was.
C1_KnownIdSettlesThatRequest ==
    [][\A m \in Messages :
          (HandleNativeMessage(m) /\ m.id \in pendingMessages) =>
              /\ pendingMessages' = pendingMessages \ {m.id}
              /\ outcome'[m.id] =
                    IF m.success
                    THEN Resolved(m.data)
                    ELSE Rejected(IF m.error = "" THEN ErrUnknown ELSE m.error)
              /\ settleCalls'[m.id] = 1
              /\ OthersUntouched(m.id)]_vars

\* A failure answer with error text rejected one request while another one
\* stayed pending.
C1_Witness ==
    \E i, j \in Ids :
        /\ i # j
        /\ claim[i] = "failure"
        /\ outcome[i] = Rejected("E1")
        /\ j \in pendingMessages

\* C2 as stated: a request that got no response before its timer ran is
\* rejected with the timeout error and is out of the table.
C2_Original ==
    \A i \in Ids :
        (/\ outcome[i].st # "none"
         /\ i \notin timers
         /\ claim[i] \notin {"success", "failure"}
         /\ ~lateResponse)
            => (outcome[i] = Rejected(ErrTimeout) /\ i \notin pendingMessages)

\* C2 as amended: a request still in the pending table when its timer runs is
\* rejected with the timeout error and removed from the table, nothing else
\* being touched; a response for an id the timeout has claimed changes no
\* request's outcome and no table entry.
C2_TimeoutRejectsAndLateResponseIsDropped ==
    [][/\ \A i \in Ids :
            (TimeoutCallback(i) /\ i \in pendingMessages) =>
                /\ outcome'[i] = Rejected(ErrTimeout)
                /\ settleCalls'[i] = 1
                /\ i \notin pendingMessages'
                /\ OthersUntouched(i)
       /\ \A i \in Ids :
            (MessageFor(i) /\ claim[i] = "timer") =>
                UNCHANGED <<pendingMessages, outcome, settleCalls, claim>>]_vars

\* The timeout claimed a request, and afterwards a response for it came in.
C2_Witness ==
    /\ lateResponse
    /\ \E i \in Ids :
        /\ claim[i] = "timer"
        /\ outcome[i] = Rejected(ErrTimeout)
        /\ \A j \in Ids \ {i} : claim[j] = "none"

\* C3: the onDisconnect listener rejects, in its one step, every request that
\* is in the pending table with the disconnection error, and leaves the table
\* empty.
C3_DisconnectRejectsAllPending ==
    [][\A c \in InitCalls :
          OnDisconnect(c) =>
              /\ pendingMessages' = {}
              /\ \A i \in pendingMessages :
                    /\ outcome'[i] = Rejected(ErrDisconnected)
                    /\ settleCalls'[i] = 1]_vars

\* Two requests were outstanding and one disconnect (that of channel 1, the
\* only channel closed) rejected both.
C3_Witness ==
    /\ open = {2}
    /\ \E i, j \in Ids :
        /\ i # j
        /\ claim[i] = "disconnect" /\ outcome[i] = Rejected(ErrDisconnected)
        /\ claim[j] = "disconnect" /\ outcome[j] = Rejected(ErrDisconnected)

\* C4: resolve/reject of a request runs at most once, by the event that takes
\* its entry out of the table; a request is in the table exactly as long as
\* it is unsettled; a timer or response for an id no longer in the table
\* changes nothing of any request.
C4_SettledExactlyOnce ==
    [][\A i \in Ids :
          /\ settleCalls'[i] <= 1
          /\ (i \in pendingMessages') = (outcome'[i].st = "pending")
          /\ Settled(outcome'[i]) = (settleCalls'[i] = 1)
          /\ Settled(outcome[i]) => outcome'[i] = outcome[i]
          /\ ((TimeoutCallback(i) \/ MessageFor(i)) /\ i \notin pendingMessages) =>
                UNCHANGED <<pendingMessages, outcome, settleCalls, claim>>]_vars

\* A response settled a request and its timer ran afterwards, to no effect.
C4_Witness ==
    \E i \in Ids :
        /\ claim[i] = "success"
        /\ outcome[i] = Resolved("X")
        /\ i \notin timers

\* C5: the ids put on the wire are strictly increasing in issuance order, on
\* whichever channel, and a timer or response of one id never changes the
\* outcome of another request.
C5_IdsIncreaseAndAreNeverReused ==
    [][/\ \A a, b \in DOMAIN sent' : a < b => sent'[a].id < sent'[b].id
       /\ \A a \in DOMAIN sent' : sent'[a].id < messageId'
       /\ \A i, j \in Ids :
            (i # j /\ (TimeoutCallback(j) \/ MessageFor(j))) =>
                outcome'[i] = outcome[i]]_vars

\* A request on channel 1 was rejected by a disconnect, and the ping of the
\* re-initialization on channel 2, issued after it, is outstanding.
C5_Witness ==
    /\ Len(sent) = 2
    /\ sent[1].chan = 1 /\ sent[2].chan = 2
    /\ claim[sent[1].id] = "disconnect"
    /\ sent[2].id \in pendingMessages

\* C6: from a disconnect until the next initialize() call (a dispose() in
\* between or not), a request throws "not connected", posts nothing and
\* enters nothing in the table.
C6_RequestsFailWhileDisconnected ==
    [][(lifecycle \in {"disconnect", "dispose"} /\ SendNativeMessage) =>
          /\ refused'
          /\ UNCHANGED <<sent, pendingMessages, messageId, timers, outcome>>]_vars

\* A request was made after a disconnect and was refused.
C6_Witness ==
    /\ lifecycle = "disconnect"
    /\ refused
    /\ port = NoPort

\* C7: every entry of the pending table is eventually removed and its
\* request settled, given only that timers run.
C7_EveryEntryIsEventuallySettled ==
    \A i \in Ids :
        (i \in pendingMessages) ~> (i \notin pendingMessages /\ Settled(outcome[i]))

\* The peer never answered, the channel never closed, and the timeout settled
\* the request.
C7_Witness ==
    /\ open = {1}
    /\ lifecycle = "initialize"
    /\ ~lateResponse
    /\ \E i \in Ids : claim[i] = "timer" /\ i \notin pendingMessages
    /\ \A j \in Ids : claim[j] \in {"none", "timer"}

\* a is outstanding and a request issued after it has been answered already.
Overtaken(a) ==
    /\ a \in pendingMessages
    /\ \E b \in Ids : a < b /\ claim[b] \in {"success", "failure"}

\* A response settles the request it names and leaves every other
\* outstanding request outstanding.
ResponseSettlesOnlyItsOwn ==
    \A m \in Messages :
        (HandleNativeMessage(m) /\ m.id \in pendingMessages) =>
            /\ Settled(outcome'[m.id])
            /\ \A a \in pendingMessages \ {m.id} :
                  a \in pendingMessages' /\ outcome'[a] = Pending

\* C8 as stated: responses settle requests in arrival order, and a request
\* that a later one has overtaken is settled only by its own response or its
\* own timeout.
C8_Original ==
    [][/\ ResponseSettlesOnlyItsOwn
       /\ \A a \in Ids :
            (Overtaken(a) /\ outcome'[a] # outcome[a]) =>
                (MessageFor(a) \/ TimeoutCallback(a))]_vars

\* C8 as amended: ... is settled only by its own response, its own timeout,
\* a disconnect or dispose.
C8_SettledInArrivalOrder ==
    [][/\ ResponseSettlesOnlyItsOwn
       /\ \A a \in Ids :
            (Overtaken(a) /\ outcome'[a] # outcome[a]) =>
                \/ MessageFor(a)
                \/ TimeoutCallback(a)
                \/ \E c \in InitCalls : OnDisconnect(c)
                \/ Dispose]_vars

\* The later request has been answered while the earlier one is outstanding.
C8_Witness ==
    \E a, b \in Ids :
        /\ a < b
        /\ claim[b] = "success"
        /\ outcome[b] = Resolved("X")
        /\ a \in pendingMessages
        /\ outcome[a] = Pending

\* C9: initialize() returns normally only if a success answer took its ping
\* out of the table; if a failure answer, the timeout, a disconnect or
\* dispose took it, initialize() throws the host-not-available error.
C9_InitializeNeedsPingSuccess ==
    \A k \in InitCalls :
        /\ inits[k].st = "ok" =>
              /\ claim[inits[k].ping] = "success"
              /\ outcome[inits[k].ping].st = "resolved"
        /\ (/\ inits[k].st \in {"ok", "unavailable"}
            /\ claim[inits[k].ping] \in {"failure", "timer", "disconnect", "dispose"})
              => inits[k].st = "unavailable"

\* One initialize() returned after its ping was answered, another threw
\* after its ping timed out.
C9_Witness ==
    \E k, l \in InitCalls :
        /\ inits[k].st = "ok"
        /\ inits[l].st = "unavailable"
        /\ claim[inits[l].ping] = "timer"

\* C10: after dispose(), and until initialize() is called again, the
\* provider has no open channel, its pending table is empty and requests are
\* refused as not connected.
C10_DisposeReleasesEverything ==
    lifecycle = "dispose" =>
        /\ open = {}
        /\ pendingMessages = {}
        /\ port = NoPort

StartFailed == startCall.pc = "idle" /\ startCall.outcome \notin {"none", "returned"}

\* C12.  When startTeaching has failed, at whichever step, the registry does
\* not hold a session that this attempt registered.
C12_FailedStartLeavesNoSession ==
    StartFailed =>
        \A t \in DOMAIN activeSessions : activeSessions[t] # startCall.session

\* C13.  When endTeaching completes for a tab that had a session, no teaching
\* overlay is left in the page of that tab.
C13_EndTeachingRemovesTeachingOverlays ==
    [][ClearSettles(TRUE) => overlay'[endCall.tabId] = 0]_vars

\* The step ends an endTeaching call that had found a session for its tab.
EndFinishes == \E ok \in BOOLEAN : ClearSettles(ok)

\* The step is an endTeaching call for a tab that has no session.
EndOfAbsentSession == \E t \in Tabs : EndTeaching(t) /\ t \notin DOMAIN activeSessions

\* C14.  Once an endTeaching call for a tab that had a session is over, the
\* registry holds no session for the tab; for a tab without a session the
\* call returns at once, without error and without changing the registry,
\* the sessions, the overlays or the store.
C14_EndTeachingDiscardsSession ==
    [][/\ EndFinishes => endCall.tabId \notin DOMAIN activeSessions'
       /\ EndOfAbsentSession =>
              /\ endCall'.pc = "idle"
              /\ endCall'.outcome = "returned"
              /\ UNCHANGED <<activeSessions, sessions, overlay, storage>>]_vars

\* The step is an annotateElement call on a tab with a session, with an id
\* that no element of the session has.
AnnotateUnknownId ==
    \E t \in DOMAIN activeSessions, elementId \in ElementIdInputs, d \in Descriptions :
        /\ AnnotateElement(t, elementId, d)
        /\ FindElement(sessions[activeSessions[t]].detectedElements, elementId) = 0

\* C15.  annotateElement with an id of no element of the session throws and
\* leaves the session, its elements and its annotation map as they were.
C15_UnknownIdIsAnError ==
    [][AnnotateUnknownId =>
           /\ annotateCall'.outcome \notin {"none", "returned"}
           /\ UNCHANGED <<activeSessions, sessions>>]_vars

\* The step is the one in which a startTeaching call registers its session.
Registers == \E v \in Viewports : ViewportSettles(v)

\* C16.  The registry holds one session per tab at most, and the session a
\* startTeaching call registers replaces the one the tab had: it holds one
\* element per box detected by this call, none of them annotated, and an
\* annotation map without entries.
C16_StartReplacesWholesale ==
    [][Registers =>
           LET t == startCall.tabId
               s == sessions'[activeSessions'[t]]
               boxes == ExtractBoundingBoxes(startCall.text)
           IN  /\ DOMAIN activeSessions' \subseteq Tabs
               /\ t \notin DOMAIN activeSessions \/ activeSessions'[t] # activeSessions[t]
               /\ DOMAIN s.userAnnotations = {}
               /\ Len(s.detectedElements) = Len(boxes)
               /\ \A p \in 1 .. Len(boxes) :
                      /\ s.detectedElements[p].bbox = boxes[p]
                      /\ s.detectedElements[p].userDescription = Undefined]_vars

\* A second session has replaced a first one that carried an annotation: no
\* endTeaching call was ever made, so the first session was registered when
\* the second was, and every annotation made so far went to the first.
C16_Witness ==
    /\ 1 \in DOMAIN activeSessions
    /\ activeSessions[1] = 2
    /\ endCall = NoCall
    /\ annotateCall.outcome = "returned"
    /\ DOMAIN sessions[2].userAnnotations = {}

\* C17.  In no state does a tab have a session registered while the page
\* still shows the overlays drawn for an earlier session.
C17_OverlaysClearedBeforeOverwrite ==
    \A t \in DOMAIN activeSessions : overlay[t] \in {0, activeSessions[t]}

\* For every session object in use, each element carries the text of the
\* last annotation made for its id, and none when its id was never annotated.
LastAnnotationShown ==
    \A r \in DOMAIN sessions :
        \A p \in 1 .. Len(sessions[r].detectedElements) :
            LET e == sessions[r].detectedElements[p]
            IN  e.userDescription =
                    IF e.id \in DOMAIN sessions[r].userAnnotations
                    THEN sessions[r].userAnnotations[e.id]
                    ELSE Undefined

\* The PageMemory saveSession hands to the store holds the elements of its
\* session as they are then, under the key of the session's URL, and that
\* PageMemory is what the store holds under the key once saveSession returned.
SavePersistsTheElements ==
    /\ (\E v \in Viewports : SaveViewportSettles(v)) =>
           /\ saveCall'.memory.elements = sessions[saveCall.session].detectedElements
           /\ saveCall'.memory.url = sessions[saveCall.session].url
           /\ saveCall'.memory.urlHash = GenerateUrlHash(sessions[saveCall.session].url)
    /\ SaveSetSettles(TRUE) =>
           /\ StorageKey(saveCall.memory.urlHash) \in DOMAIN storage'
           /\ storage'[StorageKey(saveCall.memory.urlHash)] = saveCall.memory

\* C18.  After annotateElement calls on existing ids, saveSession persists,
\* for the session's URL, all detected elements, each with the text of the
\* last annotation made for its id and the never annotated ones with none.
C18_AnnotationsArePersisted ==
    []LastAnnotationShown /\ [][SavePersistsTheElements]_vars

\* Element 1 was annotated twice, element 2 never, and the session was saved.
C18_Witness ==
    /\ starts = 1
    /\ annotateCall.made = 2
    /\ 1 \in DOMAIN activeSessions
    /\ sessions[activeSessions[1]].userAnnotations = [x \in {1} |-> "cancel"]
    /\ saveCall.outcome = "returned"
    /\ \E key \in DOMAIN storage :
           /\ Len(storage[key].elements) = 2
           /\ storage[key].elements[1].userDescription = "cancel"
           /\ storage[key].elements[2].userDescription = Undefined

\* The pieces that follow the piece at position i of a line, up to the next
\* box tag or the end of the line.
RECURSIVE Following(_, _)
Following(line, i) ==
    IF i + 1 > Len(line) \/ line[i + 1].k \in {"box", "badbox"}
    THEN <<>>
    ELSE <<line[i + 1]>> \o Following(line, i + 1)

\* The description of the n-th well-formed box tag of a text, as C19 has it:
\* the text that follows that tag, the placeholder when nothing follows.
ExpectedDescription(text, n) ==
    LET all == Concat([l \in 1 .. Len(text) |-> text[l] \o <<BadBox>>])
        tags == {i \in 1 .. Len(all) : IsBoxTag(all[i])}
        at == CHOOSE i \in tags : Cardinality({j \in tags : j <= i}) = n
    IN  IF Following(all, at) = <<>>
        THEN PlaceholderDescription(n)
        ELSE TextDescription(Following(all, at))

\* C19.  Every element of a session a startTeaching call registers has as
\* autoDescription the text that follows its own box tag in the response.
C19_DescriptionOfOwnBox ==
    [][Registers =>
           LET s == sessions'[activeSessions'[startCall.tabId]]
           IN  \A p \in 1 .. Len(s.detectedElements) :
                   s.detectedElements[p].autoDescription =
                       ExpectedDescription(startCall.text, p)]_vars

\* The elements of a catalog have the ids 1..N in list order and the default
\* confidence.
SequentialIds(elements) ==
    \A p \in 1 .. Len(elements) :
        elements[p].id = p /\ elements[p].confidence = "0.8"

\* C20.  In every registered session and in every PageMemory saved from one
\* the element ids are 1..N in list order and every confidence is 0.8.
C20_IdsSequentialFromOne ==
    /\ \A t \in DOMAIN activeSessions :
           SequentialIds(sessions[activeSessions[t]].detectedElements)
    /\ \A key \in DOMAIN storage : SequentialIds(storage[key].elements)

C20_Witness ==
    /\ \E t \in DOMAIN activeSessions :
           Len(sessions[activeSessions[t]].detectedElements) = 2
    /\ \E key \in DOMAIN storage : Len(storage[key].elements) = 2

\* ---- C21
\* r.similarity is the maximum of the IoUs of the remembered box against the
\* boxes of all current elements, 0 when there are none.
SimilarityIsMaxIoU(r, currentElements) ==
    LET ious == {CalculateIoU(currentElements[j].normalizedBbox,
                              r.element.normalizedBbox) :
                     j \in DOMAIN currentElements}
    IN  IF currentElements = <<>>
        THEN NumEq(r.similarity, Zero)
        ELSE /\ \E v \in ious : NumEq(r.similarity, v)
             /\ \A v \in ious : NumGeq(r.similarity, v)

\* C21: matchElements returns one result per remembered element, in the order
\* of the remembered list; each result's similarity is the maximum IoU of that
\* element's box against the boxes of all current elements (0 when there are
\* none), and matched is true exactly when that maximum is greater than 0.5.
C21_MatchIsMaxIoUOverHalf ==
    pureCall.fn = "matchElements" =>
        /\ Len(pureCall.result) = Len(pureCall.remembered)
        /\ \A i \in DOMAIN pureCall.result :
               /\ pureCall.result[i].element = pureCall.remembered[i]
               /\ SimilarityIsMaxIoU(pureCall.result[i], pureCall.current)
               /\ pureCall.result[i].matched
                      <=> NumGt(pureCall.result[i].similarity, Half)

\* ---- C22
WellFormed(box) == box.x1 <= box.x2 /\ box.y1 <= box.y2

\* C22: the IoU of a well-formed box with itself is 1.0, also when the box has
\* no width or no height.
C22_IoUOfBoxWithItselfIsOne ==
    (/\ pureCall.fn = "calculateIoU"
     /\ pureCall.box1 = pureCall.box2
     /\ WellFormed(pureCall.box1))
        => NumEq(pureCall.result, One)

\* ---- C23
\* C23: converting a pixel value to the normalized scale and back gives a
\* value that differs from it by at most 1, for every dimension.
C23_RoundTripWithinOne ==
    pureCall.fn = "roundTrip" =>
        /\ pureCall.result - pureCall.pixel <= 1
        /\ pureCall.pixel - pureCall.result <= 1

\* ---- C24
\* C24: extractBoundingBoxes returns one box per well-formed
\* <box>(a,b),(c,d)</box> in the text, with x1 = a, y1 = b, x2 = c, y2 = d, in
\* the order in which they appear; malformed tags contribute nothing.
C24_OneBoxPerWellFormedTag ==
    pureCall.fn = "extractBoundingBoxes" =>
        pureCall.result = Concat([i \in DOMAIN pureCall.pieces |->
                                      pureCall.pieces[i].boxes])

\* A text with two well-formed tags around a malformed one has been parsed.
C24_Witness ==
    /\ pureCall.fn = "extractBoundingBoxes"
    /\ Len(pureCall.pieces) = 3
    /\ pureCall.pieces[1].boxes # <<>>
    /\ pureCall.pieces[2].boxes = <<>>
    /\ Len(pureCall.pieces[2].chars) > 1
    /\ pureCall.pieces[3].boxes # <<>>
    /\ Len(pureCall.result) = 2

\* ---- C25
\* The two URLs differ at most in query string and fragment.
SamePage(u, v) ==
    u.protocol = v.protocol /\ u.hostname = v.hostname /\ u.pathname = v.pathname

\* The entries of the store under the keys of the URLs of the page of u.
PageEntries(store, u) ==
    {k \in DOMAIN store : \E v \in StoreUrls : SamePage(u, v) /\ k = KeyOf(v)}

\* A save that succeeds leaves one entry for the page, which holds the saved
\* memory and is the entry of every URL of the page.
SaveLeavesOneEntryForThePage ==
    \A c \in Callers :
        (/\ storeCalls[c].op = "savePageMemory"
         /\ storeCalls[c].pc = "set"
         /\ storeCalls'[c].outcome = "returned")
            => /\ Cardinality(PageEntries(storage', storeCalls[c].url)) = 1
               /\ \A v \in StoreUrls :
                      SamePage(storeCalls[c].url, v)
                          => Lookup(storage', KeyOf(v)) = storeCalls[c].memory

\* A get that succeeds returns the entry of the page, whichever URL of the
\* page it is made with.
GetReturnsThePageEntry ==
    \A c \in Callers :
        (/\ storeCalls[c].op = "getPageMemory"
         /\ storeCalls[c].pc = "get"
         /\ GetSettles(c, TRUE))
            => \A v \in StoreUrls :
                   SamePage(storeCalls[c].url, v)
                       => storeCalls'[c].result = Lookup(storage, KeyOf(v))

\* C25: URLs that differ only in query string or fragment have the same
\* urlHash: a save for one overwrites the entry saved for the other, leaving a
\* single entry with the later memory, and get-by-url with either returns it.
C25_SamePageSameEntry ==
    [][SaveLeavesOneEntryForThePage /\ GetReturnsThePageEntry]_vars

\* After saves for the page, a get made with one URL has returned the memory
\* saved with another URL of the page, the only entry there is.
C25_Witness ==
    \E c \in Callers :
        /\ storeCalls[c].op = "getPageMemory"
        /\ storeCalls[c].outcome = "returned"
        /\ storeCalls[c].result # NoMemory
        /\ storeCalls[c].result.url # storeCalls[c].url
        /\ SamePage(storeCalls[c].result.url, storeCalls[c].url)
        /\ storeMade = MaxStoreCalls
        /\ Cardinality(DOMAIN storage) = 1

\* ---- C26
\* The call of chrome.storage.local that caller c awaits fails.
StoreFails(c) ==
    \/ SetSettles(c, FALSE)
    \/ GetSettles(c, FALSE)
    \/ GetAllSettles(c, FALSE)
    \/ RemoveSettles(c, FALSE)
    \/ BytesSettles(c, FALSE)

\* C26: when the underlying store fails during an operation of the memory
\* store, the operation ends with an error for its caller; it does not
\* return an absent or empty result.
C26_StoreFailureIsAnError ==
    [][\A c \in Callers :
           StoreFails(c) => /\ storeCalls'[c].pc = "idle"
                            /\ storeCalls'[c].outcome # "returned"]_vars

\* ---- C30
\* The label the stored memory under key has for the element with the id;
\* Undefined when there is no such memory or element.
StoredLabel(store, key, elementId) ==
    IF key \in DOMAIN store /\ FindElement(store[key].elements, elementId) # 0
    THEN store[key].elements[FindElement(store[key].elements, elementId)]
             .userDescription
    ELSE Undefined

\* The update of caller d has taken effect: it returned, and the store has
\* its label on its element.
UpdateInEffect(d) ==
    /\ storeCalls[d].op = "updateElementDescription"
    /\ storeCalls[d].outcome = "returned"
    /\ StoredLabel(storage, KeyOf(storeCalls[d].url), storeCalls[d].elementId)
           = storeCalls[d].userDescription

\* C30: of two updateElementDescription calls for different elements of the
\* same page both take effect: when the second completes, the stored memory
\* still carries the label the first one wrote.
C30_NoLostUpdate ==
    [][\A c \in Callers, d \in Callers :
           (/\ storeCalls[c].op = "updateElementDescription"
            /\ SetSettles(c, TRUE)
            /\ UpdateInEffect(d)
            /\ KeyOf(storeCalls[d].url) = KeyOf(storeCalls[c].url)
            /\ storeCalls[d].elementId # storeCalls[c].elementId)
               => StoredLabel(storage', KeyOf(storeCalls[d].url),
                              storeCalls[d].elementId)
                      = storeCalls[d].userDescription]_vars

\* ---- C27
\* A step of startTeaching, of annotateElement or of endTeaching.
StartAnnotateOrEndStep ==
    \/ \E t \in Tabs, u \in Urls : StartTeaching(t, u)
    \/ \E ok \in BOOLEAN : CaptureSettles(ok)
    \/ \E r \in Responses : ModelSettles(r)
    \/ \E v \in Viewports \cup {NoViewport} : ViewportSettles(v)
    \/ \E ok \in BOOLEAN : DrawSettles(ok)
    \/ \E t \in Tabs : Annotate(t)
    \/ \E t \in Tabs : EndTeaching(t)
    \/ \E ok \in BOOLEAN : ClearSettles(ok)

\* C27: startTeaching, annotateElement and endTeaching never write to or
\* delete from the memory store, so a session ended without a saveSession
\* leaves the store as it was.
C27_OnlySaveChangesTheStore ==
    [][StartAnnotateOrEndStep => storage' = storage]_vars

\* A session was started, annotated and ended, saveSession was never called,
\* and the store is as it was at the start.
C27_Witness ==
    /\ startCall.outcome = "returned"
    /\ annotateCall.outcome = "returned"
    /\ endCall.outcome = "returned"
    /\ activeSessions = EmptyMap
    /\ saveCall = NoSaveCall
    /\ storage = EmptyMap

\* ---- C28
\* C28: an inbound message that carries no id, or an id that is not in the
\* pending table (never issued, already settled, already timed out), leaves
\* the table as it is, settles nothing and changes no request's outcome.
C28_UnknownIdChangesNothing ==
    [][\A m \in Messages :
          (HandleNativeMessage(m) /\ (m.id = NoId \/ m.id \notin pendingMessages))
              => /\ pendingMessages' = pendingMessages
                 /\ outcome' = outcome
                 /\ settleCalls' = settleCalls]_vars

\* A response for a request that had timed out has been dropped while
\* another request was pending, and that one is pending still.
C28_Witness ==
    \E i, j \in Ids :
        /\ claim[i] = "timer"
        /\ lateResponse
        /\ j \in pendingMessages
        /\ outcome[j] = Pending

\* ---- C29
\* The requests posted on channel p that are in the pending table.
PendingOn(p) ==
    {i \in pendingMessages : \E n \in DOMAIN sent : sent[n] = [chan |-> p, id |-> i]}

\* C29: once the provider has been initialized again, a disconnect of a
\* channel an earlier initialize call opened rejects no request pending on the
\* current channel and leaves the current channel in place.
C29_StaleDisconnectIsIsolated ==
    [][\A c \in InitCalls :
          (OnDisconnect(c) /\ port # NoPort /\ c # port)
              => /\ port' = port
                 /\ \A i \in PendingOn(port) :
                        i \in pendingMessages' /\ outcome'[i] = outcome[i]]_vars

\* ---- C31
\* C31: endTeaching discards only the session that was registered for the tab
\* when the call began; a session that startTeaching registered for the tab
\* while endTeaching was waiting for the overlays to be cleared is still
\* registered when endTeaching has finished.
C31_EndDiscardsOnlyItsOwnSession ==
    [][(/\ ClearSettles(TRUE)
        /\ endCall.tabId \in DOMAIN activeSessions
        /\ activeSessions[endCall.tabId] # endCall.session)
           => /\ endCall.tabId \in DOMAIN activeSessions'
              /\ activeSessions'[endCall.tabId] = activeSessions[endCall.tabId]]_vars

\* ---- C34
\* C34: when the end_teaching action finishes, the tab has no active session,
\* whether saving succeeded or failed.
C34_EndTeachingActionLeavesNoSession ==
    [][/\ ActionLeftBySaveError => saveCall'.tabId \notin DOMAIN activeSessions'
       /\ ActionLeftAfterEnd => endCall'.tabId \notin DOMAIN activeSessions']_vars

\* ---- C32
\* C32: whenever create in hybrid mode, or autoDetect, returns the in-process
\* provider because the out-of-process initialize() failed, the out-of-process
\* provider that was tried has no open channel and no pending request.
C32_FallbackReleasesNativeProvider ==
    (/\ FallsBack(mode)
     /\ createPc = "returned"
     /\ returned = "browser")
        => /\ open = {}
           /\ pendingMessages = {}

\* ---- C33
\* C33: in desktop mode a failed out-of-process initialize() leaves create
\* with that error and no in-process provider is built; in browser_only mode
\* no channel is opened and nothing is sent; an unknown mode throws before
\* any provider is built or initialized.
C33_SingleModeSelection ==
    /\ mode = "desktop" =>
          /\ provider # "browser"
          /\ returned # "browser"
          /\ fallbackCause = ""
          /\ inits[1].st = "unavailable" =>
                /\ createPc = "threw"
                /\ thrown = ErrUnavailable
                /\ returned = "none"
    /\ mode = "browser_only" =>
          /\ provider = "browser"
          /\ open = {}
          /\ sent = <<>>
          /\ inits[1].st = "none"
          /\ thrown = ""
    /\ mode \notin {"none", "auto", "browser_only", "desktop", "hybrid"} =>
          /\ createPc = "threw"
          /\ thrown = ErrUnknownMode
          /\ provider = "none"
          /\ returned = "none"
          /\ open = {}
          /\ \A k \in InitCalls : inits[k].st = "none"

\* create in desktop mode threw because the ping of initialize() timed out.
C33_Witness ==
    /\ mode = "desktop"
    /\ createPc = "threw"
    /\ thrown = ErrUnavailable
    /\ claim[inits[1].ping] = "timer"

\* ---- C35
\* The call of caller c is an updateElementDescription.
IsUpdate(c) == storeCalls[c].op = "updateElementDescription"

\* C35: updateElementDescription throws when there is no PageMemory for the
\* URL or the PageMemory has no element with the id, and the store is then
\* left as it is; when it succeeds, the store differs from the one before
\* only in the label of the targeted element of the URL's entry.
C35_UpdateChangesOnlyTheLabel ==
    [][\A c \in Callers :
          /\ (/\ IsUpdate(c)
              /\ \E ok \in BOOLEAN : GetSettles(c, ok)
              /\ Lookup(storage, KeyOf(storeCalls[c].url)) = NoMemory)
                 => /\ storeCalls'[c].pc = "idle"
                    /\ storeCalls'[c].outcome = ErrPageNotFound
                    /\ storage' = storage
          /\ (/\ IsUpdate(c)
              /\ GetSettles(c, TRUE)
              /\ Lookup(storage, KeyOf(storeCalls[c].url)) # NoMemory
              /\ FindElement(storage[KeyOf(storeCalls[c].url)].elements,
                             storeCalls[c].elementId) = 0)
                 => /\ storeCalls'[c].pc = "idle"
                    /\ storeCalls'[c].outcome = ErrElementNotFound
                    /\ storage' = storage
          /\ (IsUpdate(c) /\ SetSettles(c, TRUE))
                 => /\ KeyOf(storeCalls[c].url) \in DOMAIN storage
                    /\ storage' =
                         MapSet(storage, KeyOf(storeCalls[c].url),
                                WithDescription(storage[KeyOf(storeCalls[c].url)],
                                                storeCalls[c].elementId,
                                                storeCalls[c].userDescription))]_vars

\* ---- C36
\* C36: the store behaves as one register per key.  A get-by-url returns
\* what is stored under the URL's key, null when nothing is; a completed
\* save puts its memory, whole, under its key and touches no other key; a
\* completed delete-by-url leaves nothing under the URL's key and touches no
\* other key; a completed clear-all leaves no memory.
C36_RegisterSemantics ==
    [][\A c \in Callers :
          /\ (/\ storeCalls[c].op = "getPageMemory"
              /\ \E ok \in BOOLEAN : GetSettles(c, ok))
                 => storeCalls'[c].result
                        = Lookup(storage, KeyOf(storeCalls[c].url))
          /\ (/\ storeCalls[c].op = "savePageMemory"
              /\ SetSettles(c, TRUE))
                 => storage' = MapSet(storage, KeyOf(storeCalls[c].url),
                                      storeCalls[c].memory)
          /\ (/\ storeCalls[c].op = "deletePageMemory"
              /\ RemoveSettles(c, TRUE))
                 => storage' = MapRemove(storage, {KeyOf(storeCalls[c].url)})
          /\ (/\ storeCalls[c].op = "clearAllMemories"
              /\ RemoveSettles(c, TRUE))
                 => MemoryKeys(storage') = {}]_vars

\* ---- C37
\* a <= b for numbers as parseFloat gives them, n / 10^e.
DecimalLeq(a, b) == a.n * Pow10(b.e) <= b.n * Pow10(a.e)

\* C37: every bounding box the grounding parser produces has x1 <= x2 and
\* y1 <= y2.
C37_ParsedBoxesAreOrdered ==
    pureCall.fn = "extractBoundingBoxes" =>
        \A i \in DOMAIN pureCall.result :
            /\ DecimalLeq(pureCall.result[i].x1, pureCall.result[i].x2)
            /\ DecimalLeq(pureCall.result[i].y1, pureCall.result[i].y2)

\* ---- C38
\* C38: annotateElement and saveSession called for a tab without a session
\* throw "No active teaching session" and change neither the registry, nor a
\* session object, nor the store.
C38_NoSessionIsAnError ==
    [][\A t \in Tabs :
          /\ (t \notin DOMAIN activeSessions /\ Annotate(t))
                => /\ annotateCall'.outcome = ErrNoSession
                   /\ UNCHANGED <<activeSessions, sessions, storage>>
          /\ (t \notin DOMAIN activeSessions /\ SaveSession(t))
                => /\ saveCall'.pc = "idle"
                   /\ saveCall'.outcome = ErrNoSession
                   /\ UNCHANGED <<activeSessions, sessions, storage>>]_vars

\* Both have been called last for a tab without a session, while another
\* tab or an earlier session left something in the store.
C38_Witness ==
    /\ annotateCall.outcome = ErrNoSession
    /\ saveCall.pc = "idle"
    /\ saveCall.outcome = ErrNoSession
    /\ saveCall.tabId \notin DOMAIN activeSessions
    /\ storage # EmptyMap

\* ---- C39
\* A step of saveSession.
SaveSessionStep ==
    \/ \E t \in Tabs : SaveSession(t)
    \/ \E v \in Viewports \cup {NoViewport} : SaveViewportSettles(v)
    \/ \E ok \in BOOLEAN : SaveSetSettles(ok)

\* C39: no step of saveSession, whether it succeeds or fails, changes the
\* registry or a registered session; once a saveSession has finished,
\* annotateElement on a tab with a session is still accepted and recorded;
\* and a saveSession that succeeds replaces what the store held under the
\* key, whole, by the memory it built, leaving the other keys alone.
C39_SaveLeavesTheSession ==
    [][/\ SaveSessionStep =>
             /\ activeSessions' = activeSessions
             /\ \A t \in DOMAIN activeSessions :
                    /\ activeSessions[t] \in DOMAIN sessions'
                    /\ sessions'[activeSessions[t]] = sessions[activeSessions[t]]
       /\ \A t \in DOMAIN activeSessions :
              \A elementId \in ElementIdInputs, description \in Descriptions :
                 (/\ saveCall.pc = "idle"
                  /\ saveCall.outcome # "none"
                  /\ AnnotateElement(t, elementId, description))
                     => /\ annotateCall'.outcome = "returned"
                        /\ sessions'[activeSessions[t]].userAnnotations[elementId]
                               = description
       /\ SaveSetSettles(TRUE) =>
             storage' = MapSet(storage, StorageKey(saveCall.memory.urlHash),
                               saveCall.memory)]_vars

\* A first saveSession succeeded, an annotation made afterwards was accepted,
\* and a second saveSession failed: the session is still registered, with the
\* annotation the stored entry does not have.
C39_Witness ==
    /\ starts = 1
    /\ saveCall.pc = "idle"
    /\ saveCall.outcome = ErrStorage
    /\ saveCall.tabId \in DOMAIN activeSessions
    /\ activeSessions[saveCall.tabId] = saveCall.session
    /\ annotateCall.outcome = "returned"
    /\ \E key \in DOMAIN storage :
           storage[key].elements # sessions[saveCall.session].detectedElements

\* ---- C40
\* Every way a request of the out-of-process provider ends in the transport
\* model is one of the outcomes execute is called with.
SendOutcomesCoverTheTransport ==
    \A i \in Ids : Settled(outcome[i]) => outcome[i] \in SendOutcomes

\* C40: execute of either provider never throws; whenever the operation it
\* awaits fails (no active tab, timeout, disconnect, dispose, an error the
\* peer reports, a failed chrome call) or the action type is unknown, it
\* returns success = false with an error text; it returns success = true
\* only when the operation completed.
C40_ExecuteNeverThrows ==
    /\ pureCall.fn = "nativeExecute" =>
          /\ ~pureCall.result.threw
          /\ pureCall.result.success <=> pureCall.sendOutcome.st = "resolved"
          /\ ~pureCall.result.success =>
                 /\ pureCall.result.error = pureCall.sendOutcome.val
                 /\ pureCall.result.error # ""
    /\ pureCall.fn = "browserExecute" =>
          /\ ~pureCall.result.threw
          /\ pureCall.result.success <=>
                 /\ pureCall.type \in KnownActionTypes
                 /\ \/ pureCall.type = "wait"
                    \/ /\ pureCall.tabId # NoTab
                       /\ pureCall.chrome # "rejects"
                       /\ ~(pureCall.type = "get_screen_size"
                               /\ pureCall.chrome = "empty")
          /\ ~pureCall.result.success => pureCall.result.error # ""
          /\ (/\ pureCall.type \in KnownActionTypes \ {"wait"}
              /\ pureCall.tabId = NoTab)
                 => pureCall.result.error = ErrNoActiveTab
          /\ pureCall.type \notin KnownActionTypes
                 => pureCall.result.error = ErrUnknownAction

\* A click was executed on the in-process provider while it had no tab.
C40_Witness ==
    /\ pureCall.fn = "browserExecute"
    /\ pureCall.type = "click"
    /\ pureCall.tabId = NoTab
    /\ pureCall.result = ActionFailed(ErrNoActiveTab)

=============================================================================
